---- MODULE Spec2Model ----
(***************************************************************************)
(* State-machine model of the yaguar-sync synchronisation orchestrator:    *)
(* SyncController (run status, run history, manual triggers),              *)
(* SchedulerService (cron task, scheduled firings), SftpService (shared    *)
(* SFTP session, download of the latest file) and the run-level view of    *)
(* ParserService.parseFromTempFile.                                        *)
(*                                                                         *)
(* Granularity: one action per event-loop task.  A handler runs            *)
(* synchronously up to its first await on real I/O (SFTP connect, list,    *)
(* fastGet, end) or on a timer; the return of that I/O, or the firing of   *)
(* the timer, is the next action of the same run.  Awaits on promises that *)
(* are already resolved (the file-system calls of the parser and of the    *)
(* cleanup are synchronous) are continued inside the same action.          *)
(*                                                                         *)
(* Strings built with template literals are modelled as sequences of       *)
(* their parts, concatenated with \o.                                      *)
(***************************************************************************)
EXTENDS Integers, Sequences, FiniteSets, TLC

(***************************************************************************)
(* Bounds of the model                                                     *)
(***************************************************************************)
\* total number of runs (manual, SFTP-only, scheduled) started in a behaviour
MaxRuns == 2
\* greatest number of entries of a remote listing checked on its own
MaxListing == 3
\* greatest length of a line of a file checked on its own
MaxLineLen == 6
\* greatest number of lines of a file checked on its own
MaxFileLines == 3
\* the most entries listed in the staging directory and in its parsed subdirectory
MaxStaged == 2
\* the most cron tasks left started behind a new one
MaxAbandoned == 2
\* the longest run history and the largest limit and offset asked of getLogs
MaxLogs == 4

(***************************************************************************)
(* Program constants                                                       *)
(***************************************************************************)
HistoryCap == 100
SuccessResetDelay == 5
ErrorResetDelay == 10
SftpOnlyResetDelay == 3
GeneratingDelay == 1
BytesPerKb == 1024
MsPerHour == 60 * 60 * 1000

SyncStatusEnum ==
  {"IDLE", "CONNECTING", "DOWNLOADING", "PARSING", "GENERATING",
   "COMPLETED", "ERROR"}

InitialMessage == <<"Servicio iniciado, esperando primera sincronizacion">>
DefaultCronSchedule == "0 3 * * *"

(***************************************************************************)
(* Environment: what the SFTP server, the file system and the HTTP clients *)
(* may answer.  Small sets, one value per distinguishable outcome.         *)
(***************************************************************************)
ConnectErrors == {<<"connect ECONNREFUSED">>}
ListErrors == {<<"list: Permission denied">>}
FetchErrors == {<<"fastGet: No such file">>}
ParseErrors == {<<"EACCES: permission denied, mkdir parsed">>}
ProductCounts == {0, 3}

\* Remote directory listings (ssh2-sftp-client FileInfo: name, type, size, modifyTime)
ListingAsc ==
  << [name |-> "db_data.asc", type |-> "-", size |-> 1536, modifyTime |-> 2],
     [name |-> "old.sql", type |-> "-", size |-> 1024, modifyTime |-> 1] >>
ListingSql ==
  << [name |-> "archive", type |-> "d", size |-> 0, modifyTime |-> 9],
     [name |-> "backup.sql", type |-> "-", size |-> 2048, modifyTime |-> 3],
     [name |-> "db_data.asc", type |-> "-", size |-> 1536, modifyTime |-> 2] >>
ListingDirOnly ==
  << [name |-> "archive", type |-> "d", size |-> 0, modifyTime |-> 9] >>
Listings == {<<>>, ListingDirOnly, ListingAsc, ListingSql}

\* cron expressions a client may send to reschedule; cron.validate accepts the first two
CronExprs == {"0 3 * * *", "*/5 * * * *", "not a cron"}

VARIABLES
  currentStatus,     \* SyncController.currentStatus: [status, message, lastSync]
  syncHistory,       \* SyncController.syncHistory: sequence of SyncResult
  runs,              \* the asynchronous runs started so far, by run id
  timers,            \* pending setTimeout callbacks: [rem, kind, run]
  client,            \* SftpService.client: 0 = null, r = the client created by run r
  isConnected,       \* SftpService.isConnected
  syncTask,          \* SchedulerService.syncTask: <<>> = null, <<[expr, started]>>
  isRunning,         \* SchedulerService.isRunning
  syncCronSchedule,  \* config.scheduler.syncCronSchedule
  last,              \* the handler run by the last step and its answer: [op, code, state]
  trans,             \* the status changes made by the last step: sequence of <<from, to>>
  snapshot,          \* the status object a caller of getStatus / getCurrentStatus holds
  call               \* the last call of a method checked on its own: [fn, args, before, result]

orchVars == <<currentStatus, syncHistory>>
sftpVars == <<client, isConnected>>
schedVars == <<syncTask, isRunning, syncCronSchedule>>
vars ==
  <<currentStatus, syncHistory, runs, timers, client, isConnected,
    syncTask, isRunning, syncCronSchedule, last, trans, snapshot, call>>

RunIds == 1..MaxRuns
NoClient == 0

(***************************************************************************)
(* Values                                                                  *)
(***************************************************************************)
NoRun ==
  [kind |-> "none", pc |-> "none", file |-> <<>>, dl |-> <<>>, pr |-> <<>>,
   term |-> "none", rec |-> <<>>, purged |-> FALSE, failed |-> FALSE]

\* the async function returns: its locals are gone
Finished(run) == [run EXCEPT !.pc = "done", !.file = <<>>, !.dl = <<>>, !.pr = <<>>]

NoOp == [op |-> "none", code |-> 0, state |-> "IDLE"]
NoCall == [fn |-> "none", args |-> <<>>, before |-> <<>>, result |-> <<>>]
NoSnapshot == <<>>

\* SFTPDownloadResult
DownloadOk(f) ==
  [success |-> TRUE, fileName |-> f.name, fileSize |-> f.size, error |-> <<>>]
DownloadFailed(name, err) ==
  [success |-> FALSE, fileName |-> name, fileSize |-> 0, error |-> err]

\* ParserResult
ParseOk(n) == [success |-> TRUE, productsCount |-> n, error |-> <<>>]
ParseFailed(err) == [success |-> FALSE, productsCount |-> 0, error |-> err]
ParseOutcomes ==
  {ParseOk(n) : n \in ProductCounts} \cup {ParseFailed(e) : e \in ParseErrors}

\* Math.round(x / d) for x >= 0
RoundDiv(x, d) == (2 * x + d) \div (2 * d)

(***************************************************************************)
(* SftpService: selection of the latest file                               *)
(***************************************************************************)
\* insertion of x into a sequence sorted by modifyTime descending, after
\* every element that does not sort after it (Array.prototype.sort is stable)
RECURSIVE InsertByModifyTimeDesc(_, _)
InsertByModifyTimeDesc(x, sorted) ==
  IF sorted = <<>> THEN <<x>>
  ELSE IF Head(sorted).modifyTime - x.modifyTime >= 0
       THEN <<Head(sorted)>> \o InsertByModifyTimeDesc(x, Tail(sorted))
       ELSE <<x>> \o sorted

\* files.sort((a, b) => b.modifyTime - a.modifyTime)
RECURSIVE SortByModifyTimeDesc(_)
SortByModifyTimeDesc(files) ==
  IF files = <<>> THEN <<>>
  ELSE InsertByModifyTimeDesc(files[Len(files)],
                              SortByModifyTimeDesc(SubSeq(files, 1, Len(files) - 1)))

IsRegularFile(f) == f.type = "-"

\* files.filter(file => file.type === "-").sort(...): the candidates of
\* downloadLatestFile, best first; <<>> when latestFile is undefined
LatestFileCandidates(files) == SortByModifyTimeDesc(SelectSeq(files, IsRegularFile))

NoFilesError == <<"No se encontraron archivos en el servidor">>
NoValidFilesError == <<"No se encontraron archivos validos">>
NoConnectionError == <<"No hay conexion SFTP activa">>

\* listFiles / downloadFile guard: !SftpService.client || !SftpService.isConnected
NoActiveConnection(c, ic) == c = NoClient \/ ~ic

\* disconnect() awaits client.end() only under this guard
DisconnectNeeded(c, ic) == c # NoClient /\ ic

(***************************************************************************)
(* SchedulerService.validateFileForParsing                                 *)
(***************************************************************************)
AllowedExtensions == {".asc", ".txt", ".csv"}
\* path.extname(fileName).toLowerCase() of the names the listings hold
ExtName(name) ==
  CASE name = "db_data.asc" -> ".asc"
    [] name = "old.sql" -> ".sql"
    [] name = "backup.sql" -> ".sql"
    [] OTHER -> ""
\* /productos/i, /woocommerce/i, /^db_data/i tested on the names the listings hold
HasValidPattern(name) == name \in {"db_data.asc"}

validateFileForParsing(name) ==
  IF ExtName(name) \notin AllowedExtensions
  THEN [valid |-> FALSE, reason |-> <<"Extension no permitida: ", ExtName(name)>>]
  ELSE IF ~HasValidPattern(name)
  THEN [valid |-> FALSE,
        reason |-> <<"Nombre de archivo no coincide con patrones esperados. Archivo: ", name>>]
  ELSE [valid |-> TRUE, reason |-> <<>>]

(***************************************************************************)
(* SyncController: status and history                                      *)
(***************************************************************************)
\* mutant: every call stamps lastSync
updateStatusStampsAlways(cs, status, message, now) ==
  [cs EXCEPT !.status = status, !.message = message, !.lastSync = <<now>>]

\* updateStatus(status, message); now stands for new Date()
updateStatus(cs, status, message, now) ==
  [cs EXCEPT !.status = status,
             !.message = message,
             !.lastSync = IF status = "COMPLETED" THEN <<now>> ELSE @]

\* A status object handed to a caller of fn: read is what it held when it was
\* handed out, now is what it holds, shared tells whether it is still the
\* object stored in SyncController.currentStatus.
\* getCurrentStatus returns the stored object itself
CurrentStatusReference(cs) ==
  [fn |-> "getCurrentStatus", read |-> cs, now |-> cs, shared |-> TRUE]
\* getStatus builds a new object: {...SyncController.currentStatus, nextSync, ...}
CurrentStatusCopy(cs) ==
  [fn |-> "getStatus", read |-> cs, now |-> cs, shared |-> FALSE]

\* mutant: updateStatus writes the fields of the stored object
WrittenInPlace(ref, cs) == IF ref.shared THEN [ref EXCEPT !.now = cs] ELSE ref

\* updateStatus stores a new object {...currentStatus, status, message,
\* lastSync}: the object handed out before is not written and is no longer
\* the stored one
Reassigned(ref, cs) == [ref EXCEPT !.shared = FALSE]

\* the object a caller holds after the updateStatus calls of a step
Held(snap, changes, cs) ==
  IF snap = <<>> \/ changes = <<>> THEN snap ELSE <<Reassigned(snap[1], cs)>>

\* the status changes of a sequence of updateStatus calls starting in status from
RECURSIVE Changes(_, _)
Changes(from, statuses) ==
  IF statuses = <<>> THEN <<>>
  ELSE <<<<from, Head(statuses)>>>> \o Changes(Head(statuses), Tail(statuses))

\* syncHistory.slice(-n)
SliceLast(h, n) == IF Len(h) > n THEN SubSeq(h, Len(h) - n + 1, Len(h)) ELSE h

\* mutant: the trim keeps the first HistoryCap records, slice(0, 100)
PushTrimmedKeepsOldest(h, rec) ==
  LET pushed == Append(h, rec)
  IN IF Len(pushed) > HistoryCap THEN SubSeq(pushed, 1, HistoryCap) ELSE pushed

\* success path: push, then keep only the last HistoryCap records
PushTrimmed(h, rec) ==
  LET pushed == Append(h, rec)
  IN IF Len(pushed) > HistoryCap THEN SliceLast(pushed, HistoryCap) ELSE pushed

\* error path: push only
PushOnly(h, rec) == Append(h, rec)

IdleMessage == <<"Esperando proxima sincronizacion">>
IdleAfterErrorMessage == <<"Esperando proxima sincronizacion (error recuperado)">>

\* SyncResult; timestamp and duration are wall-clock readings and are left out
SyncResult(success, recordsProcessed, fileSize, error) ==
  [success |-> success, recordsProcessed |-> recordsProcessed,
   fileSize |-> fileSize, error |-> error]

ResetTimer(kind, delay, r) == [rem |-> delay, kind |-> kind, run |-> r]

(***************************************************************************)
(* Effects.  The continuation of a run after an await is computed as a     *)
(* record of the new values [cs, hist, run, timers, trans] of              *)
(* currentStatus, syncHistory, runs[r], timers and of the status changes   *)
(* made, with parser, what ParserService.parseFromTempFile returned if the *)
(* continuation has called it (<<>> if it has not).                        *)
(***************************************************************************)
Effect(cs, hist, run, tm, statuses) ==
  [cs |-> cs, hist |-> hist, run |-> run, timers |-> tm,
   trans |-> Changes(currentStatus.status, statuses), parser |-> <<>>]

\* the continuation fx has called the parser, which returned p
WithParser(fx, p) == [fx EXCEPT !.parser = <<p>>]

\* the run only suspends at its next await: no orchestrator state changes
Suspend(run) == Effect(currentStatus, syncHistory, run, timers, <<>>)

\* executeFullSync, catch block; done are the statuses already set in this task
FullSyncCatch(r, run, cs, done, errorMessage) ==
  LET result == SyncResult(FALSE, 0, 0, errorMessage)
  IN Effect(updateStatus(cs, "ERROR", <<"Error en sincronizacion: ">> \o errorMessage, r),
            PushOnly(syncHistory, result),
            [Finished(run) EXCEPT !.term = "ERROR", !.rec = <<result>>, !.failed = TRUE],
            timers \cup {ResetTimer("resetErr", ErrorResetDelay, r)},
            done \o <<"ERROR">>)

\* executeFullSync from PARSING to the await of the GENERATING delay, or to
\* the end of the catch block; p is what parseFromTempFile returns
ParseAndGenerate(r, run, p) ==
  LET parsing == updateStatus(currentStatus, "PARSING",
                              <<"Parseando archivo: ", run.dl[1].fileName, "...">>, r)
  IN WithParser(
       IF ~p.success
       THEN FullSyncCatch(r, run, parsing, <<"PARSING">>, <<"Error en parsing: ">> \o p.error)
       ELSE Effect(updateStatus(parsing, "GENERATING",
                                <<"Preparando datos para WooCommerce...">>, r),
                   syncHistory,
                   [run EXCEPT !.pr = <<p>>, !.pc = "gen"],
                   timers \cup {ResetTimer("resume", GeneratingDelay, r)},
                   <<"PARSING", "GENERATING">>),
       p)

\* mutant: the file is parsed whatever the download reported
ContinueFullSyncParsesAnyway(r, res) ==
  {ParseAndGenerate(r, [runs[r] EXCEPT !.dl = <<res>>], p) : p \in ParseOutcomes}

\* executeFullSync after the return of downloadLatestFileComplete: the set of
\* possible continuations, one per answer of the parser
ContinueFullSync(r, res) ==
  LET run == [runs[r] EXCEPT !.dl = <<res>>]
  IN IF ~res.success
     THEN {FullSyncCatch(r, run, currentStatus, <<>>, <<"Error en descarga: ">> \o res.error)}
     ELSE {ParseAndGenerate(r, run, p) : p \in ParseOutcomes}

\* executeFullSync after the GENERATING delay: phase 4 and the success reset timer
CompleteFullSync(r) ==
  LET run == runs[r]
      n == run.pr[1].productsCount
      result == SyncResult(TRUE, n, RoundDiv(run.dl[1].fileSize, BytesPerKb), <<>>)
  IN Effect(updateStatus(currentStatus, "COMPLETED",
                         <<"Sincronizacion completada: ", ToString(n),
                           " productos procesados">>, r),
            PushTrimmed(syncHistory, result),
            [Finished(run) EXCEPT !.term = "COMPLETED", !.rec = <<result>>],
            {t \in timers : ~(t.kind = "resume" /\ t.run = r)}
              \cup {ResetTimer("resetOk", SuccessResetDelay, r)},
            <<"COMPLETED">>)

\* executeSftpOnlySync after the return of downloadLatestFileComplete
ContinueSftpOnlySync(r, res) ==
  LET run == [runs[r] EXCEPT !.dl = <<res>>]
      errorMessage == <<"Error en descarga: ">> \o res.error
  IN IF ~res.success
     THEN {Effect(updateStatus(currentStatus, "ERROR",
                               <<"Error en descarga SFTP: ">> \o errorMessage, r),
                  syncHistory,
                  [Finished(run) EXCEPT !.term = "ERROR", !.failed = TRUE],
                  timers \cup {ResetTimer("resetErr", ErrorResetDelay, r)},
                  <<"ERROR">>)}
     ELSE {Effect(updateStatus(currentStatus, "COMPLETED",
                               <<"Descarga SFTP completada: ", res.fileName>>, r),
                  syncHistory,
                  [Finished(run) EXCEPT !.term = "COMPLETED"],
                  timers \cup {ResetTimer("resetOk", SftpOnlyResetDelay, r)},
                  <<"COMPLETED">>)}

\* triggerAutomaticSync from validateFileForParsing to its end; an error is
\* logged, rethrown and logged again by executeSyncTask
ValidateParseAndClean(r, res, p) ==
  LET run == Finished(runs[r])
      validation == validateFileForParsing(res.fileName)
      thrown ==
        IF res.fileName = ""
        THEN <<"No se obtuvo el nombre del archivo descargado">>
        ELSE IF ~validation.valid
        THEN <<"Archivo no valido para procesamiento: ">> \o validation.reason
        ELSE IF ~p.success THEN <<"Error al parsear archivo: ">> \o p.error
        ELSE <<>>
      fx == Suspend(IF thrown # <<>> THEN [run EXCEPT !.failed = TRUE]
                    ELSE [run EXCEPT !.purged = TRUE])
  IN IF res.fileName # "" /\ validation.valid THEN WithParser(fx, p) ELSE fx

\* triggerAutomaticSync after the return of downloadLatestFileComplete
ContinueAutomaticSync(r, res) ==
  IF ~res.success
  THEN {Suspend([Finished(runs[r]) EXCEPT !.failed = TRUE])}
  ELSE {ValidateParseAndClean(r, res, p) : p \in ParseOutcomes}

\* the caller of downloadLatestFileComplete resumes with its result
Continue(r, res) ==
  CASE runs[r].kind = "full" -> ContinueFullSync(r, res)
    [] runs[r].kind = "sftp" -> ContinueSftpOnlySync(r, res)
    [] OTHER -> ContinueAutomaticSync(r, res)

\* downloadLatestFileComplete once the download result is known: disconnect()
\* awaits client.end() when a session is open (c, ic: client and isConnected
\* at that point), else the result is returned in the same task
Resolve(r, res, c, ic) ==
  IF DisconnectNeeded(c, ic)
  THEN {Suspend([runs[r] EXCEPT !.pc = "end", !.dl = <<res>>])}
  ELSE Continue(r, res)

\* run r takes one of the continuations fxs
Apply(r, fxs) ==
  \E fx \in fxs :
  /\ currentStatus' = fx.cs
  /\ syncHistory' = fx.hist
  /\ runs' = [runs EXCEPT ![r] = fx.run]
  /\ timers' = fx.timers
  /\ trans' = fx.trans

(***************************************************************************)
(* SchedulerService.  The scheduler state is handled as a record           *)
(* [syncTask, isRunning, schedule, threw]; threw is set when the method    *)
(* throws.                                                                 *)
(***************************************************************************)
\* cron.validate on the expressions of CronExprs
cronValidate(expr) == expr \in {"0 3 * * *", "*/5 * * * *"}

SchedulerState ==
  [syncTask |-> syncTask, isRunning |-> isRunning,
   schedule |-> syncCronSchedule, threw |-> FALSE]

\* cron.schedule(expr, executeSyncTask, {scheduled: false})
NewTask(expr) == <<[expr |-> expr, started |-> FALSE]>>

initialize(s) ==
  IF ~cronValidate(s.schedule) THEN [s EXCEPT !.threw = TRUE]
  ELSE [s EXCEPT !.syncTask = NewTask(s.schedule)]

start(s) ==
  IF s.syncTask = <<>> THEN [s EXCEPT !.threw = TRUE]
  ELSE IF s.isRunning THEN s
  ELSE [s EXCEPT !.syncTask[1].started = TRUE, !.isRunning = TRUE]

stop(s) ==
  IF s.syncTask = <<>> THEN s
  ELSE IF ~s.isRunning THEN s
  ELSE [s EXCEPT !.syncTask[1].started = FALSE, !.isRunning = FALSE]

destroy(s) ==
  IF s.syncTask # <<>> THEN [s EXCEPT !.syncTask = <<>>, !.isRunning = FALSE]
  ELSE s

reschedule(s, newSchedule) ==
  IF ~cronValidate(newSchedule) THEN [s EXCEPT !.threw = TRUE]
  ELSE LET wasRunning == s.isRunning
           destroyed == destroy(stop(s))
           initialized == initialize([destroyed EXCEPT !.schedule = newSchedule])
       IN IF initialized.threw THEN initialized
          ELSE IF wasRunning THEN start(initialized)
          ELSE initialized

SetScheduler(s) ==
  /\ syncTask' = s.syncTask
  /\ isRunning' = s.isRunning
  /\ syncCronSchedule' = s.schedule

\* the cron task held in syncTask fires only while it is started
TaskFires == syncTask # <<>> /\ syncTask[1].started

(***************************************************************************)
(* Runs                                                                    *)
(***************************************************************************)
NumStarted == Cardinality({r \in RunIds : runs[r].kind # "none"})
NextRunId == NumStarted + 1

NewRun(kind) == [NoRun EXCEPT !.kind = kind, !.pc = "connect"]

Answer(op, code) == [op |-> op, code |-> code, state |-> currentStatus.status]

\* mutant: only the phases of a run count as busy, not the grace delay
TriggerSyncBusyOnlyWhileRunning ==
  currentStatus.status \in {"CONNECTING", "DOWNLOADING", "PARSING", "GENERATING"}

\* mutant: the firing does not look at the status
ExecuteSyncTaskNeverBusy == FALSE

\* the single-flight guards: triggerSync, triggerSftpOnly, executeSyncTask
TriggerSyncBusy == currentStatus.status # "IDLE"
TriggerSftpOnlyBusy == currentStatus.status # "IDLE"
ExecuteSyncTaskBusy == currentStatus.status # "IDLE"

\* a handler that answers and changes nothing else
AnswerOnly(op, code) ==
  /\ last' = Answer(op, code)
  /\ trans' = <<>>
  /\ UNCHANGED <<currentStatus, syncHistory, runs, timers, client, isConnected,
                 syncTask, isRunning, syncCronSchedule, snapshot, call>>

\* mutant: the run goes straight to DOWNLOADING
StartManualRunSkipsConnecting(kind) ==
  /\ NumStarted < MaxRuns
  /\ currentStatus' =
       updateStatus(currentStatus, "DOWNLOADING",
                    <<"Descargando archivo mas reciente desde SFTP...">>, NextRunId)
  /\ trans' = Changes(currentStatus.status, <<"DOWNLOADING">>)
  /\ runs' = [runs EXCEPT ![NextRunId] = NewRun(kind)]
  /\ client' = NextRunId
  /\ snapshot' = Held(snapshot, trans', currentStatus')
  /\ UNCHANGED <<syncHistory, timers, isConnected, schedVars, call>>

\* executeFullSync / executeSftpOnlySync up to the await of client.connect():
\* CONNECTING, DOWNLOADING, SftpService.client = new SftpClient()
StartManualRun(kind) ==
  /\ NumStarted < MaxRuns
  /\ currentStatus' =
       updateStatus(
         updateStatus(currentStatus, "CONNECTING",
                      <<"Conectando al servidor SFTP...">>, NextRunId),
         "DOWNLOADING", <<"Descargando archivo mas reciente desde SFTP...">>, NextRunId)
  /\ trans' = Changes(currentStatus.status, <<"CONNECTING", "DOWNLOADING">>)
  /\ runs' = [runs EXCEPT ![NextRunId] = NewRun(kind)]
  /\ client' = NextRunId
  /\ snapshot' = Held(snapshot, trans', currentStatus')
  /\ UNCHANGED <<syncHistory, timers, isConnected, schedVars, call>>

\* POST /api/sync/trigger
TriggerSync ==
  IF TriggerSyncBusy
  THEN AnswerOnly("triggerSync", 409)
  ELSE /\ last' = Answer("triggerSync", 200)
       /\ StartManualRun("full")

\* POST /api/sync/trigger-sftp-only
TriggerSftpOnly ==
  IF TriggerSftpOnlyBusy
  THEN AnswerOnly("triggerSftpOnly", 409)
  ELSE /\ last' = Answer("triggerSftpOnly", 200)
       /\ StartManualRun("sftp")

\* the cron task fires: executeSyncTask, and triggerAutomaticSync up to the
\* await of client.connect()
ExecuteSyncTask ==
  /\ TaskFires
  /\ IF ExecuteSyncTaskBusy
     THEN AnswerOnly("executeSyncTask", 0)
     ELSE /\ NumStarted < MaxRuns
          /\ last' = Answer("executeSyncTask", 0)
          /\ trans' = <<>>
          /\ runs' = [runs EXCEPT ![NextRunId] = NewRun("auto")]
          /\ client' = NextRunId
          /\ UNCHANGED <<currentStatus, syncHistory, timers, isConnected, schedVars,
                         snapshot, call>>

(***************************************************************************)
(* Status reads                                                            *)
(***************************************************************************)
\* a read: the caller gets the status object obj, nothing else changes
Read(op, code, obj) ==
  /\ last' = Answer(op, code)
  /\ snapshot' = <<obj>>
  /\ trans' = <<>>
  /\ UNCHANGED <<currentStatus, syncHistory, runs, timers, sftpVars, schedVars, call>>

\* mutant: the last records are taken out of the history (splice for slice)
GetStatusSplicesHistory ==
  /\ last' = Answer("getStatus", 200)
  /\ snapshot' = <<CurrentStatusCopy(currentStatus)>>
  /\ trans' = <<>>
  /\ syncHistory' = <<>>
  /\ UNCHANGED <<currentStatus, runs, timers, sftpVars, schedVars, call>>

\* GET /api/sync/status: a copy of the status, the last 5 records, their count
GetStatus == Read("getStatus", 200, CurrentStatusCopy(currentStatus))

\* SyncController.getCurrentStatus() called by other code of the process
GetCurrentStatus == Read("getCurrentStatus", 0, CurrentStatusReference(currentStatus))

(***************************************************************************)
(* SftpService.downloadLatestFileComplete, one action per I/O completion   *)
(***************************************************************************)
\* a step of a run or of a timer: no handler answers; the status objects
\* handed out are left as updateStatus leaves them
Internal ==
  /\ last' = NoOp
  /\ snapshot' = Held(snapshot, trans', currentStatus')
  /\ call' = call

\* client.connect() resolves: isConnected = true, then listFiles checks the
\* session and awaits client.list()
ConnectOk(r) ==
  /\ runs[r].pc = "connect"
  /\ isConnected' = TRUE
  /\ client' = client
  /\ Apply(r, IF NoActiveConnection(client, TRUE)
              THEN Resolve(r, DownloadFailed("", NoFilesError), client, TRUE)
              ELSE {Suspend([runs[r] EXCEPT !.pc = "list"])})
  /\ Internal
  /\ UNCHANGED schedVars

\* client.connect() rejects: isConnected = false, downloadLatestFileComplete
\* throws, disconnects and returns the failure
ConnectFailed(r) ==
  /\ runs[r].pc = "connect"
  /\ isConnected' = FALSE
  /\ client' = client
  /\ \E e \in ConnectErrors : Apply(r, Resolve(r, DownloadFailed("", e), client, FALSE))
  /\ Internal
  /\ UNCHANGED schedVars

\* downloadLatestFile once listFiles has returned files (<<>> stands for a
\* failed or empty listing)
AfterList(r, files) ==
  LET candidates == LatestFileCandidates(files)
  IN IF files = <<>>
     THEN Resolve(r, DownloadFailed("", NoFilesError), client, isConnected)
     ELSE IF candidates = <<>>
     THEN Resolve(r, DownloadFailed("", NoValidFilesError), client, isConnected)
     ELSE IF NoActiveConnection(client, isConnected)
     THEN Resolve(r, DownloadFailed(candidates[1].name, NoConnectionError),
                  client, isConnected)
     ELSE {Suspend([runs[r] EXCEPT !.pc = "fetch", !.file = <<candidates[1]>>])}

\* client.list() resolves with a listing
ListOk(r) ==
  /\ runs[r].pc = "list"
  /\ \E files \in Listings : Apply(r, AfterList(r, files))
  /\ Internal
  /\ UNCHANGED <<sftpVars, schedVars>>

\* client.list() rejects: listFiles returns success: false
ListFailed(r) ==
  /\ runs[r].pc = "list"
  /\ \E e \in ListErrors : Apply(r, AfterList(r, <<>>))
  /\ Internal
  /\ UNCHANGED <<sftpVars, schedVars>>

\* client.fastGet() resolves; fs.statSync gives the size
FetchOk(r) ==
  /\ runs[r].pc = "fetch"
  /\ Apply(r, Resolve(r, DownloadOk(runs[r].file[1]), client, isConnected))
  /\ Internal
  /\ UNCHANGED <<sftpVars, schedVars>>

\* client.fastGet() rejects
FetchFailed(r) ==
  /\ runs[r].pc = "fetch"
  /\ \E e \in FetchErrors :
       Apply(r, Resolve(r, DownloadFailed(runs[r].file[1].name, e), client, isConnected))
  /\ Internal
  /\ UNCHANGED <<sftpVars, schedVars>>

\* client.end() resolves: client = null, isConnected = false
EndOk(r) ==
  /\ runs[r].pc = "end"
  /\ client' = NoClient
  /\ isConnected' = FALSE
  /\ Apply(r, Continue(r, runs[r].dl[1]))
  /\ Internal
  /\ UNCHANGED schedVars

\* client.end() rejects: the error is logged, the session fields are kept
EndFailed(r) ==
  /\ runs[r].pc = "end"
  /\ Apply(r, Continue(r, runs[r].dl[1]))
  /\ Internal
  /\ UNCHANGED <<sftpVars, schedVars>>

(***************************************************************************)
(* Timers                                                                  *)
(***************************************************************************)
\* the least remaining delay of the pending timers
RECURSIVE MinRem(_)
MinRem(ts) ==
  LET t == CHOOSE x \in ts : TRUE
  IN IF ts = {t} THEN t.rem
     ELSE LET m == MinRem(ts \ {t}) IN IF t.rem < m THEN t.rem ELSE m

\* time passes up to the next deadline; a due timer runs before time moves on
Tick ==
  /\ timers # {}
  /\ \A t \in timers : t.rem > 0
  /\ timers' = {[t EXCEPT !.rem = @ - MinRem(timers)] : t \in timers}
  /\ trans' = <<>>
  /\ UNCHANGED <<currentStatus, syncHistory, runs, sftpVars, schedVars>>
  /\ Internal

\* the GENERATING delay of a full run is over
ResumeFullSync(r) ==
  /\ runs[r].pc = "gen"
  /\ \E t \in timers : t.kind = "resume" /\ t.run = r /\ t.rem = 0
  /\ Apply(r, {CompleteFullSync(r)})
  /\ Internal
  /\ UNCHANGED <<sftpVars, schedVars>>

ResetMessage(kind) == IF kind = "resetErr" THEN IdleAfterErrorMessage ELSE IdleMessage

\* a delayed reset fires: updateStatus(IDLE, ...)
ResetToIdle ==
  \E t \in timers :
    /\ t.kind \in {"resetOk", "resetErr"}
    /\ t.rem = 0
    /\ currentStatus' = updateStatus(currentStatus, "IDLE", ResetMessage(t.kind), t.run)
    /\ trans' = Changes(currentStatus.status, <<"IDLE">>)
    /\ timers' = timers \ {t}
    /\ Internal
    /\ UNCHANGED <<syncHistory, runs, sftpVars, schedVars>>

(***************************************************************************)
(* SchedulerController                                                     *)
(***************************************************************************)
SchedulerHandler(op, s, failCode) ==
  /\ IF s.threw THEN UNCHANGED schedVars ELSE SetScheduler(s)
  /\ last' = Answer(op, IF s.threw THEN failCode ELSE 200)
  /\ trans' = <<>>
  /\ UNCHANGED <<currentStatus, syncHistory, runs, timers, sftpVars, snapshot, call>>

\* POST /api/scheduler/start
SchedulerStart == SchedulerHandler("start", start(SchedulerState), 500)

\* POST /api/scheduler/stop
SchedulerStop == SchedulerHandler("stop", stop(SchedulerState), 500)

\* POST /api/scheduler/reschedule
SchedulerReschedule ==
  \E expr \in CronExprs :
    SchedulerHandler("reschedule", reschedule(SchedulerState, expr), 400)

(***************************************************************************)
(* Specification                                                           *)
(***************************************************************************)
\* app.ts: SchedulerService.initialize(); SchedulerService.start()
StartedScheduler ==
  start(initialize([syncTask |-> <<>>, isRunning |-> FALSE,
                    schedule |-> DefaultCronSchedule, threw |-> FALSE]))

InitWith(status, history) ==
  /\ currentStatus = status
  /\ syncHistory = history
  /\ runs = [r \in RunIds |-> NoRun]
  /\ timers = {}
  /\ client = NoClient
  /\ isConnected = FALSE
  /\ syncTask = StartedScheduler.syncTask
  /\ isRunning = StartedScheduler.isRunning
  /\ syncCronSchedule = StartedScheduler.schedule
  /\ last = NoOp
  /\ trans = <<>>
  /\ snapshot = NoSnapshot

\* the static initialisers of SyncController
InitialStatus == [status |-> "IDLE", message |-> InitialMessage, lastSync |-> <<>>]

Init == InitWith(InitialStatus, <<>>) /\ call = NoCall

Next ==
  \/ TriggerSync
  \/ TriggerSftpOnly
  \/ ExecuteSyncTask
  \/ \E r \in RunIds : ConnectOk(r)
  \/ \E r \in RunIds : ConnectFailed(r)
  \/ \E r \in RunIds : ListOk(r)
  \/ \E r \in RunIds : ListFailed(r)
  \/ \E r \in RunIds : FetchOk(r)
  \/ \E r \in RunIds : FetchFailed(r)
  \/ \E r \in RunIds : EndOk(r)
  \/ \E r \in RunIds : EndFailed(r)
  \/ \E r \in RunIds : ResumeFullSync(r)
  \/ ResetToIdle
  \/ Tick
  \/ SchedulerStart
  \/ SchedulerStop
  \/ SchedulerReschedule

Spec == Init /\ [][Next]_vars

\* the history after HistoryCap successful full runs of db_data.asc with 3 products
WarmHistory ==
  [i \in 1..HistoryCap |-> SyncResult(TRUE, 3, RoundDiv(1536, BytesPerKb), <<>>)]

\* the status once the last of these runs has been reset to IDLE; 0 stands for
\* the time of that run
WarmStatus == [status |-> "IDLE", message |-> IdleMessage, lastSync |-> <<0>>]

InitWarm == InitWith(WarmStatus, WarmHistory) /\ call = NoCall

\* the service after HistoryCap successful runs
SpecWarm == InitWarm /\ [][Next]_vars

\* the readers of the status and all that writes it: the manual runs (only
\* executeFullSync and executeSftpOnlySync call updateStatus) and their timers
NextReads ==
  \/ TriggerSync
  \/ TriggerSftpOnly
  \/ \E r \in RunIds : ConnectOk(r)
  \/ \E r \in RunIds : ConnectFailed(r)
  \/ \E r \in RunIds : ListOk(r)
  \/ \E r \in RunIds : ListFailed(r)
  \/ \E r \in RunIds : FetchOk(r)
  \/ \E r \in RunIds : FetchFailed(r)
  \/ \E r \in RunIds : EndOk(r)
  \/ \E r \in RunIds : EndFailed(r)
  \/ \E r \in RunIds : ResumeFullSync(r)
  \/ ResetToIdle
  \/ Tick
  \/ GetStatus
  \/ GetCurrentStatus

SpecReads == Init /\ [][NextReads]_vars

\* the runs on their own, with the driver left as app.ts starts it: the
\* triggers, the firings of the cron task, the I/O completions and the timers
NextRuns ==
  \/ TriggerSync
  \/ TriggerSftpOnly
  \/ ExecuteSyncTask
  \/ \E r \in RunIds : ConnectOk(r)
  \/ \E r \in RunIds : ConnectFailed(r)
  \/ \E r \in RunIds : ListOk(r)
  \/ \E r \in RunIds : ListFailed(r)
  \/ \E r \in RunIds : FetchOk(r)
  \/ \E r \in RunIds : FetchFailed(r)
  \/ \E r \in RunIds : EndOk(r)
  \/ \E r \in RunIds : EndFailed(r)
  \/ \E r \in RunIds : ResumeFullSync(r)
  \/ ResetToIdle
  \/ Tick

SpecRuns == Init /\ [][NextRuns]_vars

\* the history after a first run that failed at connect and HistoryCap - 1
\* successful full runs of db_data.asc, with 0 and 3 products in turn
AgedHistory ==
  [i \in 1..HistoryCap |->
     IF i = 1
     THEN SyncResult(FALSE, 0, 0, <<"Error en descarga: ">> \o <<"connect ECONNREFUSED">>)
     ELSE SyncResult(TRUE, IF i % 2 = 0 THEN 3 ELSE 0, RoundDiv(1536, BytesPerKb), <<>>)]

InitAged == InitWith(WarmStatus, AgedHistory) /\ call = NoCall

\* the runs of a service whose history is full
SpecAged == InitAged /\ [][NextRuns]_vars

(***************************************************************************)
(* The schedule driver on its own: SchedulerService behind the handlers of *)
(* SchedulerController, with the calls of node-cron (task.stop in stop and *)
(* in destroy, cron.schedule, task.start) either returning or throwing.    *)
(* lib tells which of them throw during one call of a handler.             *)
(***************************************************************************)
LibOutcomes == [stop : BOOLEAN, destroy : BOOLEAN, schedule : BOOLEAN, start : BOOLEAN]
NoThrow == [stop |-> FALSE, destroy |-> FALSE, schedule |-> FALSE, start |-> FALSE]

initializeWith(s, lib) ==
  IF ~cronValidate(s.schedule) \/ lib.schedule THEN [s EXCEPT !.threw = TRUE]
  ELSE [s EXCEPT !.syncTask = NewTask(s.schedule)]

\* mutant: starting a started driver is an error
startWithThrowsWhenRunning(s, lib) ==
  IF s.syncTask = <<>> \/ s.isRunning \/ lib.start THEN [s EXCEPT !.threw = TRUE]
  ELSE [s EXCEPT !.syncTask[1].started = TRUE, !.isRunning = TRUE]

startWith(s, lib) ==
  IF s.syncTask = <<>> THEN [s EXCEPT !.threw = TRUE]
  ELSE IF s.isRunning THEN s
  ELSE IF lib.start THEN [s EXCEPT !.threw = TRUE]
  ELSE [s EXCEPT !.syncTask[1].started = TRUE, !.isRunning = TRUE]

stopWith(s, lib) ==
  IF s.syncTask = <<>> THEN s
  ELSE IF ~s.isRunning THEN s
  ELSE IF lib.stop THEN [s EXCEPT !.threw = TRUE]
  ELSE [s EXCEPT !.syncTask[1].started = FALSE, !.isRunning = FALSE]

\* an error of task.stop() is logged: syncTask and isRunning are kept
destroyWith(s, lib) ==
  IF s.syncTask # <<>> /\ ~lib.destroy
  THEN [s EXCEPT !.syncTask = <<>>, !.isRunning = FALSE]
  ELSE s

\* mutant: the old task is stopped and destroyed before the expression is validated
rescheduleWithValidatesLate(s, newSchedule, lib) ==
  LET destroyed == destroyWith(stopWith(s, lib), lib)
  IN IF ~cronValidate(newSchedule) THEN [destroyed EXCEPT !.threw = TRUE]
     ELSE startWith(initializeWith([destroyed EXCEPT !.schedule = newSchedule], lib), lib)

\* mutant: the new task is started whether or not the driver was running
rescheduleWithAlwaysStarts(s, newSchedule, lib) ==
  IF ~cronValidate(newSchedule) THEN [s EXCEPT !.threw = TRUE]
  ELSE LET stopped == stopWith(s, lib)
           destroyed == destroyWith(stopped, lib)
           initialized == initializeWith([destroyed EXCEPT !.schedule = newSchedule], lib)
       IN IF stopped.threw THEN stopped
          ELSE IF initialized.threw THEN initialized
          ELSE startWith(initialized, lib)

rescheduleWith(s, newSchedule, lib) ==
  IF ~cronValidate(newSchedule) THEN [s EXCEPT !.threw = TRUE]
  ELSE LET wasRunning == s.isRunning
           stopped == stopWith(s, lib)
           destroyed == destroyWith(stopped, lib)
           initialized == initializeWith([destroyed EXCEPT !.schedule = newSchedule], lib)
       IN IF stopped.threw THEN stopped
          ELSE IF initialized.threw THEN initialized
          ELSE IF wasRunning THEN startWith(initialized, lib)
          ELSE initialized

\* the driver as a handler finds or leaves it
Driver(s) == [syncTask |-> s.syncTask, isRunning |-> s.isRunning, schedule |-> s.schedule]

\* a handler of SchedulerController has called fn(args): s is the scheduler
\* as fn leaves it, failCode the status of the answer when fn throws
DriverHandler(fn, args, s, failCode) ==
  /\ SetScheduler(s)
  /\ call' = [fn |-> fn, args |-> args, before |-> <<Driver(SchedulerState)>>,
              result |-> <<s.threw>>]
  /\ last' = Answer(fn, IF s.threw THEN failCode ELSE 200)
  /\ trans' = <<>>
  /\ UNCHANGED <<currentStatus, syncHistory, runs, timers, sftpVars, snapshot>>

\* POST /api/scheduler/start
DriverStart ==
  \E lib \in LibOutcomes : DriverHandler("start", <<>>, startWith(SchedulerState, lib), 500)

\* POST /api/scheduler/stop
DriverStop ==
  \E lib \in LibOutcomes : DriverHandler("stop", <<>>, stopWith(SchedulerState, lib), 500)

\* POST /api/scheduler/reschedule
DriverReschedule ==
  \E expr \in CronExprs, lib \in LibOutcomes :
    DriverHandler("reschedule", <<expr>>, rescheduleWith(SchedulerState, expr, lib), 400)

NextDriver ==
  \/ DriverStart
  \/ DriverStop
  \/ DriverReschedule

SpecDriver == Init /\ [][NextDriver]_vars

(***************************************************************************)
(* The life cycle of the schedule driver: every sequence of calls of       *)
(* SchedulerService.initialize, start, stop, reschedule and destroy, from   *)
(* the loading of the module.  A task made by cron.schedule lives in        *)
(* node-cron whether or not syncTask still holds it: a task that was        *)
(* started and is overwritten in syncTask without being stopped goes on     *)
(* firing.  call.result[1] counts these tasks.                              *)
(***************************************************************************)
Abandoned == call.result[1]

\* initialize assigns the new task to syncTask: the task held before is
\* neither stopped nor destroyed
abandonedByInitialize(s, lib) ==
  IF s.syncTask # <<>> /\ s.syncTask[1].started /\ ~initializeWith(s, lib).threw
  THEN 1 ELSE 0

\* reschedule calls initialize on what stop and destroy have left
abandonedByReschedule(s, newSchedule, lib) ==
  IF ~cronValidate(newSchedule) THEN 0
  ELSE LET stopped == stopWith(s, lib)
           destroyed == destroyWith(stopped, lib)
       IN IF stopped.threw THEN 0
          ELSE abandonedByInitialize([destroyed EXCEPT !.schedule = newSchedule], lib)

\* the static initialisers of SchedulerService, before app.ts calls initialize
InitLifecycle ==
  /\ currentStatus = InitialStatus
  /\ syncHistory = <<>>
  /\ runs = [r \in RunIds |-> NoRun]
  /\ timers = {}
  /\ client = NoClient
  /\ isConnected = FALSE
  /\ syncTask = <<>>
  /\ isRunning = FALSE
  /\ syncCronSchedule = DefaultCronSchedule
  /\ last = NoOp
  /\ trans = <<>>
  /\ snapshot = NoSnapshot
  /\ call = [NoCall EXCEPT !.result = <<0, FALSE>>]

\* fn(args) has been called: s is the scheduler as fn leaves it, abandoned
\* the number of started tasks it has overwritten
Lifecycle(fn, args, s, abandoned) ==
  /\ Abandoned + abandoned <= MaxAbandoned
  /\ SetScheduler(s)
  /\ call' = [fn |-> fn, args |-> args, before |-> <<Driver(SchedulerState)>>,
              result |-> <<Abandoned + abandoned, s.threw>>]
  /\ UNCHANGED <<currentStatus, syncHistory, runs, timers, sftpVars, last, trans,
                 snapshot>>

ServiceInitialize ==
  \E lib \in LibOutcomes :
    Lifecycle("initialize", <<>>, initializeWith(SchedulerState, lib),
              abandonedByInitialize(SchedulerState, lib))

ServiceStart ==
  \E lib \in LibOutcomes : Lifecycle("start", <<>>, startWith(SchedulerState, lib), 0)

ServiceStop ==
  \E lib \in LibOutcomes : Lifecycle("stop", <<>>, stopWith(SchedulerState, lib), 0)

ServiceReschedule ==
  \E expr \in CronExprs, lib \in LibOutcomes :
    Lifecycle("reschedule", <<expr>>, rescheduleWith(SchedulerState, expr, lib),
              abandonedByReschedule(SchedulerState, expr, lib))

ServiceDestroy ==
  \E lib \in LibOutcomes : Lifecycle("destroy", <<>>, destroyWith(SchedulerState, lib), 0)

NextLifecycle ==
  \/ ServiceInitialize
  \/ ServiceStart
  \/ ServiceStop
  \/ ServiceReschedule
  \/ ServiceDestroy

SpecLifecycle == InitLifecycle /\ [][NextLifecycle]_vars

(***************************************************************************)
(* SftpService.downloadLatestFile on its own: the choice of the file, for  *)
(* every listing of at most MaxListing entries with distinct names         *)
(***************************************************************************)
\* names a remote directory may hold, in the order of their UTF-16 code units
RemoteNames == <<"README", "a.sql", "b.sql", "c.sql">>
RemoteEntries ==
  [name : {RemoteNames[i] : i \in 1..Len(RemoteNames)}, type : {"-", "d"},
   size : {1024}, modifyTime : {1, 2}]

DistinctNames(files) ==
  \A i, j \in 1..Len(files) : i # j => files[i].name # files[j].name

\* what client.list() may return
RemoteListings ==
  {files \in UNION {[1..n -> RemoteEntries] : n \in 0..MaxListing} : DistinctNames(files)}

\* latestFile of downloadLatestFile: <<>> when the listing is empty or failed
\* or holds no regular file, else <<the file handed to downloadFile>>
latestFile(files) ==
  IF files = <<>> \/ LatestFileCandidates(files) = <<>> THEN <<>>
  ELSE <<LatestFileCandidates(files)[1]>>

InitSelect ==
  /\ InitWith(InitialStatus, <<>>)
  /\ \E files \in RemoteListings : call = [NoCall EXCEPT !.args = <<files>>]

\* downloadLatestFile chooses among the entries listed
DownloadLatestFile ==
  /\ call.fn = "none"
  /\ call' = [call EXCEPT !.fn = "downloadLatestFile", !.result = latestFile(call.args[1])]
  /\ UNCHANGED <<currentStatus, syncHistory, runs, timers, sftpVars, schedVars,
                 last, trans, snapshot>>

SpecSelect == InitSelect /\ [][DownloadLatestFile]_vars

(***************************************************************************)
(* SyncController.getLogs on its own, for every history of at most MaxLogs *)
(* records and every limit and offset up to MaxLogs + 1                    *)
(***************************************************************************)
Max(a, b) == IF a > b THEN a ELSE b
Min(a, b) == IF a < b THEN a ELSE b

\* Array.prototype.slice(from, to) for 0 <= from, 0 <= to (0-based, to
\* excluded and clamped to the length)
Slice(h, from, to) == SubSeq(h, from + 1, Min(to, Len(h)))

\* Array.prototype.reverse()
Reverse(h) == [i \in 1..Len(h) |-> h[Len(h) + 1 - i]]

\* mutant: the page is cut from the oldest end and not reversed
getLogsOldestFirst(h, limit, offset) ==
  LET totalLogs == Len(h)
  IN [logs |-> Slice(h, offset, offset + limit),
      total |-> totalLogs, limit |-> limit, offset |-> offset,
      hasMore |-> offset + limit < totalLogs]

\* the data of the answer of getLogs; limit and offset are Number(req.query...)
getLogs(h, limit, offset) ==
  LET totalLogs == Len(h)
      startIndex == Max(0, totalLogs - offset - limit)
      endIndex == Max(0, totalLogs - offset)
  IN [logs |-> Reverse(Slice(h, startIndex, endIndex)),
      total |-> totalLogs, limit |-> limit, offset |-> offset,
      hasMore |-> startIndex > 0]

\* limit and offset of a request
QueryNumbers == 0..(MaxLogs + 1)

\* a history of n records that differ (in the code by their timestamps, here
\* by the number of products): the first run failed, run i processed i products
LoggedHistory(n) ==
  [i \in 1..n |->
     IF i = 1
     THEN SyncResult(FALSE, 0, 0, <<"Error en descarga: ">> \o <<"connect ECONNREFUSED">>)
     ELSE SyncResult(TRUE, i, RoundDiv(1536, BytesPerKb), <<>>)]

InitLogs ==
  \E n \in 0..MaxLogs :
    /\ InitWith(IF n < 2 THEN InitialStatus ELSE WarmStatus, LoggedHistory(n))
    /\ call = NoCall

\* GET /api/sync/logs?limit=..&offset=..
GetLogs ==
  \E limit, offset \in QueryNumbers :
    /\ call' = [fn |-> "getLogs", args |-> <<limit, offset>>, before |-> <<>>,
                result |-> <<getLogs(syncHistory, limit, offset)>>]
    /\ last' = Answer("getLogs", 200)
    /\ trans' = <<>>
    /\ UNCHANGED <<currentStatus, syncHistory, runs, timers, sftpVars, schedVars,
                   snapshot>>

SpecLogs == InitLogs /\ [][GetLogs]_vars

(***************************************************************************)
(* The staging directory: SftpService.cleanupTempFiles and                 *)
(* ParserService.cleanupParsedFiles on their own.  A directory is the      *)
(* sequence of its entries [name, type, mtime] in the order readdirSync    *)
(* lists them; temp is config.paths.tempDir, parsed its subdirectory       *)
(* "parsed", which exists when temp lists it.  Times are in milliseconds.  *)
(***************************************************************************)
\* Date.now() when the cleanup runs
Now == 100 * MsPerHour

\* the thresholds SchedulerService passes: cleanupTempFiles(2), cleanupParsedFiles(24)
Thresholds == {2, 24}

\* ages in hours of the entries: just written, and on either side of each threshold
Ages == {0, 1, 3, 25}
MTimes == {Now - a * MsPerHour : a \in Ages}

ParsedDirName == "parsed"
TempEntries ==
  [name : {"db_data.asc", "old_data.asc"}, type : {"-"}, mtime : MTimes]
    \cup [name : {ParsedDirName}, type : {"d"}, mtime : MTimes]
ParsedEntries == [name : {"db_data.json", "old_data.json"}, type : {"-"}, mtime : MTimes]

\* what readdirSync may return: at most MaxStaged entries, in any order
Directories(entries) ==
  {files \in UNION {[1..n -> entries] : n \in 0..MaxStaged} : DistinctNames(files)}

\* existsSync(parsedDir)
ParsedDirExists(temp) == \E i \in 1..Len(temp) : temp[i].name = ParsedDirName

Stagings ==
  {st \in [temp : Directories(TempEntries), parsed : Directories(ParsedEntries)] :
     st.parsed # <<>> => ParsedDirExists(st.temp)}

\* mutant: the threshold is taken in minutes
cutoffTimeInMinutes(now, olderThanHours) == now - olderThanHours * 60 * 1000

\* cutoffTime
cutoffTime(now, olderThanHours) == now - olderThanHours * MsPerHour

\* the loop over the entries listed: kept are the entries passed over, todo
\* the entries still to visit.  unlinkSync removes a file; on a directory it
\* throws, and the catch block around the loop ends the cleanup there
RECURSIVE Sweep(_, _, _)
Sweep(kept, todo, cutoff) ==
  IF todo = <<>> THEN kept
  ELSE LET file == Head(todo)
       IN IF file.mtime < cutoff
          THEN IF file.type = "d" THEN kept \o todo
               ELSE Sweep(kept, Tail(todo), cutoff)
          ELSE Sweep(Append(kept, file), Tail(todo), cutoff)

cleanupTempFiles(st, olderThanHours) ==
  [st EXCEPT !.temp = Sweep(<<>>, st.temp, cutoffTime(Now, olderThanHours))]

cleanupParsedFiles(st, olderThanHours) ==
  IF ~ParsedDirExists(st.temp) THEN st
  ELSE [st EXCEPT !.parsed = Sweep(<<>>, st.parsed, cutoffTime(Now, olderThanHours))]

\* the staging directory as the last cleanup left it
Staging == call.result[1]

InitStaging ==
  /\ InitWith(InitialStatus, <<>>)
  /\ \E st \in Stagings : call = [NoCall EXCEPT !.result = <<st>>]

Cleanup(fn, after, olderThanHours) ==
  /\ call' = [fn |-> fn, args |-> <<olderThanHours>>, before |-> <<Staging>>,
              result |-> <<after>>]
  /\ UNCHANGED <<currentStatus, syncHistory, runs, timers, sftpVars, schedVars,
                 last, trans, snapshot>>

CleanupTempFiles ==
  \E h \in Thresholds : Cleanup("cleanupTempFiles", cleanupTempFiles(Staging, h), h)

CleanupParsedFiles ==
  \E h \in Thresholds : Cleanup("cleanupParsedFiles", cleanupParsedFiles(Staging, h), h)

NextStaging == CleanupTempFiles \/ CleanupParsedFiles

SpecStaging == InitStaging /\ [][NextStaging]_vars

(***************************************************************************)
(* Progress.  Node runs every callback that is due: an SFTP call that has  *)
(* been issued completes (resolves or rejects), a timer that has run out   *)
(* fires, and time passes.  Triggers, firings and scheduler requests are   *)
(* up to the clients and are under no such condition.                      *)
(***************************************************************************)
\* the next completion of the I/O that run r awaits
IoCompletes(r) ==
  \/ ConnectOk(r) \/ ConnectFailed(r)
  \/ ListOk(r) \/ ListFailed(r)
  \/ FetchOk(r) \/ FetchFailed(r)
  \/ EndOk(r) \/ EndFailed(r)

EventLoop ==
  /\ \A r \in RunIds : WF_vars(IoCompletes(r))
  /\ \A r \in RunIds : WF_vars(ResumeFullSync(r))
  /\ WF_vars(ResetToIdle)
  /\ WF_vars(Tick)

SpecLive == Init /\ [][Next]_vars /\ EventLoop

(***************************************************************************)
(* ParserService.  A string is the sequence of its characters.             *)
(***************************************************************************)
Digits == {"0", "1", "2", "3", "4", "5", "6", "7", "8", "9"}
\* the characters \s matches among those the lines of the model hold
Whitespace == {" ", "\t"}

\* length of the longest run of characters of set that starts at position i of s
RECURSIVE RunLength(_, _, _)
RunLength(s, i, set) ==
  IF i > Len(s) \/ s[i] \notin set THEN 0 ELSE 1 + RunLength(s, i + 1, set)

\* length of the longest run of characters of set that ends at position i of s
RECURSIVE RunLengthBack(_, _, _)
RunLengthBack(s, i, set) ==
  IF i < 1 \/ s[i] \notin set THEN 0 ELSE 1 + RunLengthBack(s, i - 1, set)

\* line.match(/\d+/g) from position i on: the maximal runs of digits, in order
RECURSIVE DigitRuns(_, _)
DigitRuns(line, i) ==
  IF i > Len(line) THEN <<>>
  ELSE LET n == RunLength(line, i, Digits)
       IN IF n = 0 THEN DigitRuns(line, i + 1)
          ELSE <<SubSeq(line, i, i + n - 1)>> \o DigitRuns(line, i + n)

\* (?:\s{2,}|\t+|\d) matches at position i
TerminatorAt(line, i) ==
  /\ i <= Len(line)
  /\ \/ RunLength(line, i, Whitespace) >= 2
     \/ line[i] = "\t"
     \/ line[i] \in Digits

\* line.match(/^(\d+)\s+(.*?)(?:\s{2,}|\t+|\d)/): <<>> for null, else
\* <<[id, name]>>, the groups 1 and 2.  (\d+) takes the whole leading run of
\* digits; \s+ takes j characters of the whitespace that follows, the most
\* first; (.*?) takes k characters, the fewest first.
MatchIdName(line) ==
  LET d == RunLength(line, 1, Digits)
      w == RunLength(line, d + 1, Whitespace)
      tries == {jk \in (1..w) \X (0..Len(line)) : TerminatorAt(line, d + jk[1] + jk[2] + 1)}
      first == CHOOSE jk \in tries :
                 \A o \in tries : jk[1] > o[1] \/ (jk[1] = o[1] /\ jk[2] <= o[2])
  IN IF d = 0 \/ w = 0 \/ tries = {} THEN <<>>
     ELSE <<[id |-> SubSeq(line, 1, d),
             name |-> SubSeq(line, d + first[1] + 1, d + first[1] + first[2])]>>

\* name.replace(/\*+$/, "")
RemoveTrailingAsterisks(name) ==
  SubSeq(name, 1, Len(name) - RunLengthBack(name, Len(name), {"*"}))

\* name.replace(/\*{3,}/g, " ") from position i on
RECURSIVE ReplaceAsteriskRuns(_, _)
ReplaceAsteriskRuns(name, i) ==
  IF i > Len(name) THEN <<>>
  ELSE LET n == RunLength(name, i, {"*"})
       IN IF n >= 3 THEN <<" ">> \o ReplaceAsteriskRuns(name, i + n)
          ELSE <<name[i]>> \o ReplaceAsteriskRuns(name, i + 1)

\* name.trim()
Trim(name) ==
  LET lead == RunLength(name, 1, Whitespace)
      trail == RunLengthBack(name, Len(name), Whitespace)
  IN IF lead = Len(name) THEN <<>> ELSE SubSeq(name, lead + 1, Len(name) - trail)

\* name.replace(/\s+/g, " ") from position i on
RECURSIVE NormalizeSpaces(_, _)
NormalizeSpaces(name, i) ==
  IF i > Len(name) THEN <<>>
  ELSE LET n == RunLength(name, i, Whitespace)
       IN IF n >= 1 THEN <<" ">> \o NormalizeSpaces(name, i + n)
          ELSE <<name[i]>> \o NormalizeSpaces(name, i + 1)

\* the four steps of the name cleaning of parseLine, in the order of the code
CleanName(name) ==
  NormalizeSpaces(Trim(ReplaceAsteriskRuns(RemoveTrailingAsterisks(name), 1)), 1)

\* parseLine(line, cleanNames): <<>> for null, else <<the ParsedProduct>>
parseLine(line, cleanNames) ==
  LET match == MatchIdName(line)
      nums == DigitRuns(line, 1)
  IN IF match = <<>> \/ Len(nums) < 2 THEN <<>>
     ELSE IF match[1].name = <<>> THEN <<>>
     ELSE LET name == IF cleanNames THEN CleanName(match[1].name) ELSE match[1].name
              stock == nums[2]
              price == IF Len(nums) >= 3 THEN nums[3] ELSE <<"0">>
              category == nums[Len(nums)]
          IN IF Len(name) < 2 THEN <<>>
             ELSE <<[sku |-> nums[1], name |-> name, price |-> price,
                     stock |-> stock, category |-> category]>>

\* isNaN(Number(s)) for a string of digits, points, letters W, asterisks and
\* whitespace: Number trims the whitespace, reads the empty string as 0 and
\* else wants digits with at most one point and at least one digit
NumberIsNaN(s) ==
  LET t == Trim(s)
      int == RunLength(t, 1, Digits)
      frac == RunLength(t, int + 2, Digits)
  IN IF t = <<>> THEN FALSE
     ELSE IF int = Len(t) THEN FALSE
     ELSE IF t[int + 1] = "." THEN ~(int + 1 + frac = Len(t) /\ int + frac >= 1)
     ELSE TRUE

\* mutant: the name must have at least 3 characters
validateProductWantsLongerName(product) ==
  IF product.sku = <<>> \/ product.name = <<>> THEN FALSE
  ELSE IF RunLength(product.sku, 1, Digits) # Len(product.sku) THEN FALSE
  ELSE IF NumberIsNaN(product.price) \/ NumberIsNaN(product.stock) THEN FALSE
  ELSE IF Len(product.name) < 3 THEN FALSE
  ELSE TRUE

\* mutant: the SKU is not tested against /^\d+$/
validateProductIgnoresSku(product) ==
  IF product.sku = <<>> \/ product.name = <<>> THEN FALSE
  ELSE IF NumberIsNaN(product.price) \/ NumberIsNaN(product.stock) THEN FALSE
  ELSE IF Len(product.name) < 2 THEN FALSE
  ELSE TRUE

\* validateProduct(product)
validateProduct(product) ==
  IF product.sku = <<>> \/ product.name = <<>> THEN FALSE
  ELSE IF RunLength(product.sku, 1, Digits) # Len(product.sku) THEN FALSE
  ELSE IF NumberIsNaN(product.price) \/ NumberIsNaN(product.stock) THEN FALSE
  ELSE IF Len(product.name) < 2 THEN FALSE
  ELSE TRUE

\* products, processedLines and skippedLines before the loop of parseFile
NoLines == [products |-> <<>>, processedLines |-> 0, skippedLines |-> 0]

\* mutant: a line that gives no record is not counted
CollectIgnoresNull(acc, product, validateData) ==
  IF product # <<>>
  THEN IF validateData /\ ~validateProduct(product[1])
       THEN [acc EXCEPT !.skippedLines = @ + 1]
       ELSE [acc EXCEPT !.products = Append(@, product[1]), !.processedLines = @ + 1]
  ELSE acc

\* the body of the loop of parseFile once parseLine has returned product
\* (<<>> for null); parseLine catches its own errors, so the catch of the
\* loop is never entered
Collect(acc, product, validateData) ==
  IF product # <<>>
  THEN IF validateData /\ ~validateProduct(product[1])
       THEN [acc EXCEPT !.skippedLines = @ + 1]
       ELSE [acc EXCEPT !.products = Append(@, product[1]), !.processedLines = @ + 1]
  ELSE [acc EXCEPT !.skippedLines = @ + 1]

\* mutant: the loop is left at the first line that gives no record
RECURSIVE LoopStopsAtBadLine(_, _, _)
LoopStopsAtBadLine(acc, lines, cfg) ==
  IF lines = <<>> THEN acc
  ELSE IF parseLine(Head(lines), cfg.cleanProductNames) = <<>>
  THEN [acc EXCEPT !.skippedLines = @ + 1]
  ELSE LoopStopsAtBadLine(
         Collect(acc, parseLine(Head(lines), cfg.cleanProductNames), cfg.validateData),
         Tail(lines), cfg)

\* for (const line of lines) { ... }
RECURSIVE Loop(_, _, _)
Loop(acc, lines, cfg) ==
  IF lines = <<>> THEN acc
  ELSE Loop(Collect(acc, parseLine(Head(lines), cfg.cleanProductNames), cfg.validateData),
            Tail(lines), cfg)

\* position of the first "\n" of fileContent from position i on, 0 if none
NextNewline(fileContent, i) ==
  LET at == {j \in i..Len(fileContent) : fileContent[j] = "\n"}
  IN IF at = {} THEN 0 ELSE CHOOSE j \in at : \A k \in at : j <= k

\* fileContent.split(/\r?\n/) from position i on
RECURSIVE SplitLines(_, _)
SplitLines(fileContent, i) ==
  LET n == NextNewline(fileContent, i)
  IN IF n = 0 THEN <<SubSeq(fileContent, i, Len(fileContent))>>
     ELSE <<SubSeq(fileContent, i,
                   IF n > i /\ fileContent[n - 1] = "\r" THEN n - 2 ELSE n - 1)>>
            \o SplitLines(fileContent, n + 1)

\* parseFile from the split of the content to the end of the loop: the lines
\* and what the loop leaves in products, processedLines and skippedLines
parseFile(fileContent, cfg) ==
  LET lines == SplitLines(fileContent, 1)
      done == Loop(NoLines, lines, cfg)
  IN [totalLines |-> Len(lines), products |-> done.products,
      processedLines |-> done.processedLines, skippedLines |-> done.skippedLines]

(***************************************************************************)
(* ParserService.parseLine on its own, for every line of at most           *)
(* MaxLineLen characters and for the sample line of the documentation      *)
(***************************************************************************)
\* a digit, a letter, an asterisk, a space and a tab
LineChars == {"1", "W", "*", " ", "\t"}

\* "1001  Widget Pro***   5   19.99   7"
WidgetLine ==
  <<"1", "0", "0", "1", " ", " ", "W", "i", "d", "g", "e", "t", " ", "P", "r", "o",
    "*", "*", "*", " ", " ", " ", "5", " ", " ", " ", "1", "9", ".", "9", "9",
    " ", " ", " ", "7">>

\* the lines of a downloaded file
FileLines == UNION {[1..n -> LineChars] : n \in 0..MaxLineLen} \cup {WidgetLine}

InitParseLine ==
  /\ InitWith(InitialStatus, <<>>)
  /\ \E line \in FileLines, cleanNames \in BOOLEAN :
       call = [NoCall EXCEPT !.args = <<line, cleanNames>>]

\* parseFile calls parseLine(line, config.cleanProductNames)
ParseLine ==
  /\ call.fn = "none"
  /\ call' = [call EXCEPT !.fn = "parseLine",
                          !.result = parseLine(call.args[1], call.args[2])]
  /\ UNCHANGED <<currentStatus, syncHistory, runs, timers, sftpVars, schedVars,
                 last, trans, snapshot>>

SpecParseLine == InitParseLine /\ [][ParseLine]_vars

(***************************************************************************)
(* ParserService.parseFile on its own: the loop over the lines of a file   *)
(* of at most MaxFileLines lines                                           *)
(***************************************************************************)
\* an empty line, the sample line, a line without leading digits, a line
\* with a name of one character, a line with a single number after the name,
\* a line with asterisks and tabs
SampleLines ==
  { <<>>,
    WidgetLine,
    <<"W", "i", " ", "1", " ", "2">>,
    <<"1", " ", " ", "W", " ", " ", "2", " ", "3">>,
    <<"1", " ", "W", "W", " ", "1">>,
    <<"2", " ", "W", "i", "*", "*", "*", " ", " ", "3", "\t", "4", "\t", "5">> }

\* the line ends of a file
LineBreaks == {<<"\n">>, <<"\r", "\n">>}

RECURSIVE JoinLines(_, _)
JoinLines(lines, break) ==
  IF Len(lines) = 1 THEN lines[1]
  ELSE lines[1] \o break \o JoinLines(Tail(lines), break)

\* what fs.readFileSync(config.inputPath, "utf-8") may return
FileContents ==
  {JoinLines(lines, break) :
     lines \in UNION {[1..n -> SampleLines] : n \in 1..MaxFileLines},
     break \in LineBreaks}

\* ParserConfig: the two fields the loop reads
ParserConfigs == [cleanProductNames : BOOLEAN, validateData : BOOLEAN]

InitParseFile ==
  /\ InitWith(InitialStatus, <<>>)
  /\ \E fileContent \in FileContents, cfg \in ParserConfigs :
       call = [NoCall EXCEPT !.args = <<fileContent, cfg>>]

\* ParserService.parseFile(config) reads the file and runs the loop
ParseFile ==
  /\ call.fn = "none"
  /\ call' = [call EXCEPT !.fn = "parseFile",
                          !.result = <<parseFile(call.args[1], call.args[2])>>]
  /\ UNCHANGED <<currentStatus, syncHistory, runs, timers, sftpVars, schedVars,
                 last, trans, snapshot>>

SpecParseFile == InitParseFile /\ [][ParseFile]_vars

(***************************************************************************)
(* The validation gate of parseFile on its own: one turn of the loop for   *)
(* every value of type ParsedProduct | null that parseLine may hand to it  *)
(***************************************************************************)
\* ParsedProduct: five strings
ParsedProducts ==
  [sku : {<<>>, <<"7">>, <<"7", "W">>},
   name : {<<>>, <<"W">>, <<"W", "i">>},
   price : {<<"5">>, <<"1", ".", "5">>, <<"W">>, <<" ">>, <<".">>},
   stock : {<<"2">>, <<"2", "W">>},
   category : {<<"7">>}]

InitValidate ==
  /\ InitWith(InitialStatus, <<>>)
  /\ \E product \in {<<>>} \cup {<<p>> : p \in ParsedProducts}, validateData \in BOOLEAN :
       call = [NoCall EXCEPT !.args = <<product, validateData>>]

\* one turn of the loop, first line of the file
CollectFirst ==
  /\ call.fn = "none"
  /\ call' = [call EXCEPT !.fn = "collect",
                          !.result = <<Collect(NoLines, call.args[1], call.args[2])>>]
  /\ UNCHANGED <<currentStatus, syncHistory, runs, timers, sftpVars, schedVars,
                 last, trans, snapshot>>

SpecValidate == InitValidate /\ [][CollectFirst]_vars

(***************************************************************************)
(* Properties                                                              *)
(***************************************************************************)
InFlight(r) == runs[r].pc \notin {"none", "done"}
TriggerOps == {"triggerSync", "triggerSftpOnly"}
StartOps == TriggerOps \cup {"executeSyncTask"}
RunAccepted == NumStarted' # NumStarted
LastRecord(h) == h[Len(h)]

\* C1: at most one run is in flight at any time, whichever source (manual
\* trigger or scheduled firing) started the runs.
C1_AtMostOneRunInFlight == Cardinality({r \in RunIds : InFlight(r)}) <= 1

\* C2: a manual trigger (triggerSync, triggerSftpOnly) handled while the status
\* is not IDLE, the grace delay in COMPLETED and ERROR included, answers 409
\* with the current state, starts no run and leaves the status, the history,
\* the timers and the SFTP session unchanged.
C2_BusyTriggerRejected ==
  [][(currentStatus.status # "IDLE" /\ last'.op \in TriggerOps)
       => /\ last'.code = 409
          /\ last'.state = currentStatus.status
          /\ UNCHANGED <<currentStatus, syncHistory, runs, timers, client, isConnected>>]_vars

\* a trigger was rejected during the grace delay after a failed run
C2_Witness ==
  /\ last.op = "triggerSync"
  /\ last.code = 409
  /\ last.state = "ERROR"
  /\ currentStatus.status = "ERROR"

\* how executeFullSync ends: ERROR and a failed record, or COMPLETED and a
\* successful record
EndsLikeFullSync(run) ==
  /\ run.term = (IF run.failed THEN "ERROR" ELSE "COMPLETED")
  /\ run.rec # <<>>
  /\ run.rec[1].success = ~run.failed

\* C3: a run started by a scheduled firing goes through the status changes of
\* a manual run and appends the same record: while it is in flight the status
\* is not IDLE, and it ends in COMPLETED or ERROR with its RunRecord appended.
C3_ScheduledRunLikeManual ==
  \A r \in RunIds :
    runs[r].kind = "auto" =>
      /\ InFlight(r) => currentStatus.status # "IDLE"
      /\ runs[r].pc = "done" => EndsLikeFullSync(runs[r])

\* C4: a scheduled firing that sees a status other than IDLE is dropped: it
\* starts no run and leaves nothing pending (runs, timers, status, history and
\* session unchanged); a run only ever starts in the step of a trigger or of a
\* firing.
C4_BusyFiringDropped ==
  [][/\ (currentStatus.status # "IDLE" /\ last'.op = "executeSyncTask")
          => UNCHANGED <<currentStatus, syncHistory, runs, timers, client, isConnected>>
     /\ RunAccepted => last'.op \in StartOps]_vars

\* a firing was dropped while a manual run was downloading
C4_Witness ==
  /\ last.op = "executeSyncTask"
  /\ last.state = "DOWNLOADING"
  /\ \E r \in RunIds : runs[r].kind = "full" /\ InFlight(r)

NonIdle == SyncStatusEnum \ {"IDLE"}
SpecifiedChanges ==
  {<<"IDLE", "CONNECTING">>, <<"CONNECTING", "DOWNLOADING">>,
   <<"DOWNLOADING", "PARSING">>, <<"PARSING", "GENERATING">>,
   <<"GENERATING", "COMPLETED">>, <<"COMPLETED", "IDLE">>, <<"ERROR", "IDLE">>}
    \cup {<<st, "ERROR">> : st \in NonIdle}
StatusChangesWithin(allowed) ==
  /\ \A i \in 1..Len(trans) : trans[i] \in allowed
  /\ NumStarted = 0 => currentStatus.status = "IDLE"

\* C5 as stated: every status change is one of Idle-Connecting,
\* Connecting-Downloading, Downloading-Parsing, Parsing-Generating,
\* Generating-Completed, Completed-Idle, non-Idle to Error, Error-Idle, and the
\* status is Idle until the first run.
C5_OnlySpecifiedChanges == StatusChangesWithin(SpecifiedChanges)

\* C5 amended: as stated, and Downloading-Completed, the change an SFTP-only
\* run makes when its download succeeds.
C5_SpecifiedOrSftpOnlyChanges ==
  StatusChangesWithin(SpecifiedChanges \cup {<<"DOWNLOADING", "COMPLETED">>})

\* an SFTP-only run has gone from DOWNLOADING to COMPLETED
C5_Witness ==
  /\ trans = <<<<"DOWNLOADING", "COMPLETED">>>>
  /\ currentStatus.status = "COMPLETED"

\* msg ends with the parts of detail
EndsWith(msg, detail) ==
  /\ Len(detail) <= Len(msg)
  /\ SubSeq(msg, Len(msg) - Len(detail) + 1, Len(msg)) = detail

\* C6: in the step in which a run fails (connect, list, fetch or parse), the
\* status becomes ERROR with the failure detail in its message, one record
\* with success = false and recordsProcessed = 0 is appended, and the reset to
\* IDLE is armed with the full error grace delay; ERROR is left for IDLE only
\* when that delay has run out.
C6_FailedRunRecordedAndDelayed ==
  [][/\ \A r \in RunIds :
          (~runs[r].failed /\ runs'[r].failed) =>
            /\ currentStatus'.status = "ERROR"
            /\ Len(syncHistory') = Len(syncHistory) + 1
            /\ syncHistory' = Append(syncHistory, LastRecord(syncHistory'))
            /\ ~LastRecord(syncHistory').success
            /\ LastRecord(syncHistory').recordsProcessed = 0
            /\ EndsWith(currentStatus'.message, LastRecord(syncHistory').error)
            /\ ResetTimer("resetErr", ErrorResetDelay, r) \in timers'
     /\ (currentStatus.status = "ERROR" /\ currentStatus'.status = "IDLE")
          => \E t \in timers : t.kind = "resetErr" /\ t.rem = 0 /\ t \notin timers']_vars

\* C7: the run history never holds more than HistoryCap (100) records.
C7_HistoryBounded == Len(syncHistory) <= HistoryCap

\* C8: every accepted run ends in COMPLETED or ERROR (and the status then
\* returns to IDLE): no run has returned without having reached one of them.
C8_RunEndsCompletedOrError ==
  \A r \in RunIds : runs[r].pc = "done" => runs[r].term \in {"COMPLETED", "ERROR"}

\* C9: a failure inside executeFullSync or inside a scheduled firing does not
\* escape (the run returns) and is turned into the ERROR status and a failed
\* RunRecord.
C9_FailureBecomesErrorAndRecord ==
  \A r \in RunIds :
    (runs[r].kind \in {"full", "auto"} /\ runs[r].failed) =>
      /\ runs[r].pc = "done"
      /\ runs[r].term = "ERROR"
      /\ runs[r].rec # <<>>
      /\ ~runs[r].rec[1].success

\* the messages updateStatus is given for a failed run
IsFailureMessage(msg) ==
  msg # <<>> /\ msg[1] \in {"Error en sincronizacion: ", "Error en descarga SFTP: "}

\* C10: once a run has failed, the status message keeps its failure detail in
\* every step until the next run is accepted, the reset to IDLE included.
C10_FailureDetailRetained ==
  [][(IsFailureMessage(currentStatus.message) /\ ~RunAccepted)
       => currentStatus'.message = currentStatus.message]_vars


\* C11: getStatus is a pure read: in every state it answers 200 and leaves the
\* status, the history, the scheduler, the runs, the timers and the SFTP
\* session unchanged.
C11_GetStatusPureRead ==
  [][last'.op = "getStatus"
       => /\ last'.code = 200
          /\ UNCHANGED <<currentStatus, syncHistory, syncTask, isRunning,
                         syncCronSchedule, runs, timers, client, isConnected>>]_vars

\* getStatus answered during the grace delay of a failed run that left a record
C11_Witness ==
  /\ last.op = "getStatus"
  /\ last.state = "ERROR"
  /\ currentStatus.status = "ERROR"
  /\ syncHistory # <<>>

\* C12: the status object returned by getStatus or getCurrentStatus is a
\* snapshot: whatever the runs do afterwards, it holds what it held when it was
\* returned.
C12_ReturnedStatusIsSnapshot ==
  snapshot # <<>> => snapshot[1].now = snapshot[1].read

\* the object getCurrentStatus returned while a run was downloading still says
\* DOWNLOADING after the run has failed
C12_Witness ==
  /\ snapshot # <<>>
  /\ snapshot[1].fn = "getCurrentStatus"
  /\ snapshot[1].now.status = "DOWNLOADING"
  /\ currentStatus.status = "ERROR"


\* C13: every run that has reached COMPLETED, manual or scheduled, has purged
\* the old staging files (cleanupTempFiles, cleanupParsedFiles) before.
C13_CompletedRunHasPurged ==
  \A r \in RunIds : runs[r].term = "COMPLETED" => runs[r].purged


\* the regular files of a listing
RegularFiles(files) == {files[i] : i \in {j \in 1..Len(files) : files[j].type = "-"}}
\* position of a name in the lexicographic order
NameRank(name) == CHOOSE i \in 1..Len(RemoteNames) : RemoteNames[i] = name
\* f is the latest of fs, the lexicographically last name winning a tie
LatestLexLast(f, fs) ==
  /\ f \in fs
  /\ \A g \in fs :
       \/ g.modifyTime < f.modifyTime
       \/ g.modifyTime = f.modifyTime /\ NameRank(g.name) <= NameRank(f.name)

\* C14: for every listing that holds a regular file, the file chosen is the
\* regular file with the greatest modification time, and among several with
\* that time the one whose name sorts lexicographically last, in whatever
\* order the listing gives the entries.
C14_LatestFileLexLastOnTie ==
  (call.fn = "downloadLatestFile" /\ RegularFiles(call.args[1]) # {})
    => /\ call.result # <<>>
       /\ LatestLexLast(call.result[1], RegularFiles(call.args[1]))

\* config.sftp.filePattern "*.*": the names with a dot
MatchesFilePattern(name) == name \in {"a.sql", "b.sql", "c.sql"}

\* C15: the file chosen is a regular file whose name matches the configured
\* file pattern; an entry that does not match is never chosen.
C15_ChosenFileMatchesPattern ==
  (call.fn = "downloadLatestFile" /\ call.result # <<>>)
    => /\ call.result[1].type = "-"
       /\ MatchesFilePattern(call.result[1].name)


\* the download failed for lack of a file: listing failed or empty, or no
\* regular file in it
NoFileErrors == {NoFilesError, NoValidFilesError}

\* C16: when the listing fails, is empty or holds no regular file, no fetch
\* is attempted (a fetch starts only for a regular file of the listing), the
\* download reports failure, and the run ends in ERROR with a failed RunRecord.
C16_NoFileEndsInErrorWithRecord ==
  [][\A r \in RunIds :
       /\ (runs[r].pc = "list" /\ runs'[r].pc = "fetch")
            => runs'[r].file[1].type = "-"
       /\ (runs[r].pc = "list" /\ runs'[r].pc = "end")
            => (runs'[r].dl[1].error \in NoFileErrors /\ ~runs'[r].dl[1].success)
       /\ (runs[r].pc = "end" /\ runs[r].dl[1].error \in NoFileErrors
             /\ runs'[r].pc = "done")
            => /\ runs'[r].term = "ERROR"
               /\ runs'[r].rec # <<>>
               /\ ~runs'[r].rec[1].success]_vars


\* the last call of the driver
Called(fn) == call.fn = fn
Threw == call.result = <<TRUE>>
DriverUnchanged == Driver(SchedulerState) = call.before[1]

\* C17: reschedule with an invalid expression fails (400) and changes nothing:
\* expression, task and running flag are as before the call, so a task that
\* was firing keeps firing.
C17_InvalidRescheduleChangesNothing ==
  (Called("reschedule") /\ ~cronValidate(call.args[1]))
    => /\ Threw
       /\ last.code = 400
       /\ DriverUnchanged

\* an invalid expression was refused while the task was firing
C17_Witness ==
  /\ Called("reschedule")
  /\ call.args = <<"not a cron">>
  /\ Threw
  /\ TaskFires

\* C18: a reschedule with a valid expression that fails in a later step
\* (stopping the old task, creating the new one, starting it) leaves the
\* driver exactly as it was before the call.
C18_FailedRescheduleAllOrNothing ==
  (Called("reschedule") /\ cronValidate(call.args[1]) /\ Threw) => DriverUnchanged

\* C19: after a successful reschedule the new expression is the configured
\* one and the one of the task, and the task fires if and only if the driver
\* was running before the call.
C19_RescheduleKeepsRunningState ==
  (Called("reschedule") /\ ~Threw)
    => /\ syncCronSchedule = call.args[1]
       /\ syncTask = <<[expr |-> call.args[1], started |-> call.before[1].isRunning]>>
       /\ isRunning = call.before[1].isRunning
       /\ TaskFires = call.before[1].isRunning

\* a stopped driver was rescheduled to another expression and stays stopped
C19_Witness ==
  /\ Called("reschedule")
  /\ ~Threw
  /\ call.before[1].schedule # call.args[1]
  /\ call.before[1].syncTask # <<>>
  /\ ~call.before[1].isRunning
  /\ ~TaskFires

\* C20: starting a started driver and stopping a stopped one raise no error
\* and change nothing; and a second start (stop) after a start (stop) that
\* returned leaves the driver as the first left it.
C20_StartStopIdempotent ==
  /\ (Called("start") /\ call.before[1].isRunning) => (~Threw /\ DriverUnchanged)
  /\ (Called("stop") /\ ~call.before[1].isRunning) => (~Threw /\ DriverUnchanged)
  /\ \A lib1, lib2 \in LibOutcomes :
       LET started == startWith(SchedulerState, lib1)
           stopped == stopWith(SchedulerState, lib1)
       IN /\ ~started.threw => startWith(started, lib2) = started
          /\ ~stopped.threw => stopWith(stopped, lib2) = stopped

\* start was called on a driver that was running
C20_Witness ==
  /\ Called("start")
  /\ call.before[1].isRunning
  /\ ~Threw
  /\ isRunning


\* the last request handled stopped or rescheduled the driver
DriverStoppedOrRescheduled == last.op \in {"stop", "reschedule"} /\ last.code = 200

\* C21: a run in flight when the schedule driver is stopped or rescheduled is
\* not aborted: it goes on to COMPLETED or ERROR, and the status then returns
\* to IDLE.
C21_StoppedDriverLeavesRun ==
  \A r \in RunIds :
    /\ (DriverStoppedOrRescheduled /\ InFlight(r))
         ~> (runs[r].term \in {"COMPLETED", "ERROR"})
    /\ (runs[r].term \in {"COMPLETED", "ERROR"}) ~> (currentStatus.status = "IDLE")

\* run r is between the creation of its SFTP client and the return of its disconnect
UsesSession(r) == runs[r].pc \in {"connect", "list", "fetch", "end"}

\* C22: the SFTP session a run has opened is its own until its fetch and
\* disconnect are over: while the run is connecting, listing, fetching or
\* disconnecting, SftpService.client is the client that run created, not one
\* put there (or removed) by another run or firing.
C22_SessionHeldByItsRun == \A r \in RunIds : UsesSession(r) => client = r

\* parseLine has returned for line with name cleaning as given
Parsed(line, cleanNames) == call.fn = "parseLine" /\ call.args = <<line, cleanNames>>

\* C23: with name cleaning, the line "1001  Widget Pro***   5   19.99   7"
\* parses to sku "1001", name "Widget Pro", stock "5", price "19.99",
\* category "7": the price is the whole third numeric token, decimal part
\* included.
C23_WidgetLineParsed ==
  Parsed(WidgetLine, TRUE) =>
    call.result =
      <<[sku |-> <<"1", "0", "0", "1">>,
         name |-> <<"W", "i", "d", "g", "e", "t", " ", "P", "r", "o">>,
         stock |-> <<"5">>,
         price |-> <<"1", "9", ".", "9", "9">>,
         category |-> <<"7">>]>>

\* C24: a line that holds, besides its leading identifier, at most one run of
\* digits (so fewer than two numeric tokens after the identifier and the
\* name) gives no record.
C24_FewNumbersRejected ==
  (call.fn = "parseLine" /\ Len(DigitRuns(call.args[1], 1)) <= 2) => call.result = <<>>

\* C28: a name that parseLine has cleaned does not end with an asterisk, holds
\* no run of 3 or more asterisks and no two consecutive whitespace characters.
C28_CleanedName ==
  (call.fn = "parseLine" /\ call.args[2] /\ call.result # <<>>) =>
    LET name == call.result[1].name
    IN /\ name[Len(name)] # "*"
       /\ \A i \in 1..Len(name) : RunLength(name, i, {"*"}) < 3
       /\ \A i \in 1..Len(name) : RunLength(name, i, Whitespace) < 2

\* parseFile has returned
ParsedFile == call.fn = "parseFile"
\* what it returned, the lines it read and its configuration
FileResult == call.result[1]
LinesRead == SplitLines(call.args[1], 1)
FileConfig == call.args[2]

\* C25: parseFile counts every line exactly once, as accepted or as
\* rejected: processedLines + skippedLines is the number of lines, and
\* processedLines is the number of output records.
C25_EveryLineCountedOnce ==
  ParsedFile =>
    /\ FileResult.totalLines = Len(LinesRead)
    /\ FileResult.processedLines + FileResult.skippedLines = FileResult.totalLines
    /\ FileResult.processedLines = Len(FileResult.products)

\* a file of three lines, some accepted and some rejected
C25_Witness ==
  /\ ParsedFile
  /\ FileResult.totalLines = 3
  /\ FileResult.processedLines >= 1
  /\ FileResult.skippedLines >= 1

\* the record of a line that is accepted, <<>> for a line that is rejected
RecordOf(line, cfg) ==
  LET product == parseLine(line, cfg.cleanProductNames)
  IN IF product # <<>> /\ (cfg.validateData => validateProduct(product[1]))
     THEN product ELSE <<>>

\* the records of the accepted lines, in the order of the lines
RECURSIVE RecordsOf(_, _)
RecordsOf(lines, cfg) ==
  IF lines = <<>> THEN <<>>
  ELSE RecordOf(Head(lines), cfg) \o RecordsOf(Tail(lines), cfg)

NoLeadingDigit(line) == line = <<>> \/ line[1] \notin Digits

\* C26: a bad line never ends the batch: the output records are the records
\* of the accepted lines, in input order, wherever the rejected lines stand;
\* every rejected line is counted, and a line without leading digits is
\* rejected.
C26_BadLineNeverAborts ==
  ParsedFile =>
    /\ FileResult.products = RecordsOf(LinesRead, FileConfig)
    /\ FileResult.skippedLines =
         Cardinality({i \in 1..Len(LinesRead) : RecordOf(LinesRead[i], FileConfig) = <<>>})
    /\ \A i \in 1..Len(LinesRead) :
         NoLeadingDigit(LinesRead[i]) => RecordOf(LinesRead[i], FileConfig) = <<>>

\* a line without leading digits stood between two accepted lines
C26_Witness ==
  /\ ParsedFile
  /\ Len(LinesRead) = 3
  /\ LinesRead[2] # <<>> /\ NoLeadingDigit(LinesRead[2])
  /\ Len(FileResult.products) = 2
  /\ FileResult.skippedLines = 1

\* the turn of the loop checked on its own, the record handed to it, and
\* whether validation is enabled
Collected == call.fn = "collect"
Handed == call.args[1]
ValidationEnabled == call.args[2]

\* a SKU of digits only and not empty, a price and a stock that Number reads
\* as numbers, a name of at least 2 characters
WellFormed(product) ==
  /\ product.sku # <<>>
  /\ \A i \in 1..Len(product.sku) : product.sku[i] \in Digits
  /\ ~NumberIsNaN(product.price)
  /\ ~NumberIsNaN(product.stock)
  /\ Len(product.name) >= 2

\* C27: with validation enabled, every record put in the output has a
\* non-empty all-digit SKU, a numeric price and stock and a name of at least
\* 2 characters; a record that fails one of these is dropped and counted as
\* rejected.
C27_ValidatedOutput ==
  (Collected /\ ValidationEnabled) =>
    /\ \A i \in 1..Len(call.result[1].products) : WellFormed(call.result[1].products[i])
    /\ (Handed # <<>> /\ ~WellFormed(Handed[1])) =>
         /\ call.result[1].products = <<>>
         /\ call.result[1].skippedLines = 1
         /\ call.result[1].processedLines = 0
    /\ (Handed # <<>> /\ WellFormed(Handed[1])) =>
         /\ call.result[1].products = Handed
         /\ call.result[1].processedLines = 1

\* a record whose SKU holds a letter was dropped and counted
C27_Witness ==
  /\ Collected /\ ValidationEnabled
  /\ Handed # <<>>
  /\ Handed[1].sku = <<"7", "W">>
  /\ Handed[1].name = <<"W", "i">>
  /\ call.result[1].products = <<>>
  /\ call.result[1].skippedLines = 1

\* the results downloadLatestFileComplete may report to run r from where the
\* run stands: the result it holds once it disconnects, success or failure
\* of the fetch it awaits, and before that failures only
MayReport(r) ==
  CASE runs[r].pc = "end" -> {runs[r].dl[1]}
    [] runs[r].pc = "fetch" ->
         {DownloadOk(runs[r].file[1])}
           \cup {DownloadFailed(runs[r].file[1].name, e) : e \in FetchErrors}
    [] runs[r].pc = "list" ->
         {DownloadFailed("", e) : e \in {NoFilesError, NoValidFilesError}}
    [] runs[r].pc = "connect" ->
         {DownloadFailed("", e) : e \in ConnectErrors \cup {NoFilesError}}
    [] OTHER -> {}

\* the status st is entered by the changes
Entered(st, changes) == \E i \in 1..Len(changes) : changes[i][2] = st

\* the continuation fx of a run whose download reported res calls the parser
\* and enters PARSING only if res is a success; if completes holds, it enters
\* COMPLETED only if the parser has reported success
OrderedAfterDownload(res, fx, completes) ==
  /\ fx.parser # <<>> => res.success
  /\ Entered("PARSING", fx.trans) => (res.success /\ fx.parser # <<>>)
  /\ (completes /\ Entered("COMPLETED", fx.trans))
       => (fx.parser # <<>> /\ fx.parser[1].success)

\* a full run waits in GENERATING only with a successful download and a
\* successful parse behind it, and is the one that enters COMPLETED
OrderedBeforeCompleted(r) ==
  runs[r].pc = "gen" =>
    /\ runs[r].dl[1].success
    /\ runs[r].pr # <<>> /\ runs[r].pr[1].success
    /\ Entered("COMPLETED", CompleteFullSync(r).trans)

\* C29 as stated: in every run the parser is called and PARSING entered only
\* after the fetch reported success (a failed download is never followed by a
\* parse), and COMPLETED is entered only after the parser reported success.
C29_PhasesOrdered ==
  \A r \in RunIds :
    /\ \A res \in MayReport(r) : \A fx \in Continue(r, res) :
         OrderedAfterDownload(res, fx, TRUE)
    /\ OrderedBeforeCompleted(r)

\* C29 amended: as stated for full and scheduled runs; an SFTP-only run never
\* calls the parser and enters COMPLETED only after the fetch reported
\* success.
C29_PhasesOrderedOrSftpOnly ==
  \A r \in RunIds :
    /\ \A res \in MayReport(r) : \A fx \in Continue(r, res) :
         /\ OrderedAfterDownload(res, fx, runs[r].kind # "sftp")
         /\ runs[r].kind = "sftp" =>
              /\ fx.parser = <<>>
              /\ Entered("COMPLETED", fx.trans) => res.success
    /\ OrderedBeforeCompleted(r)

\* a full run has entered PARSING and GENERATING after a successful fetch and
\* a successful parse
C29_Witness ==
  \E r \in RunIds :
    /\ runs[r].kind = "full"
    /\ runs[r].pc = "gen"
    /\ Entered("PARSING", trans)
    /\ runs[r].dl[1].success
    /\ runs[r].pr[1].success

\* run r has taken the status to COMPLETED or to ERROR
Completion(r) == runs[r].term \in {"COMPLETED", "ERROR"}

\* C30: RunRecords and run completions correspond one to one: a run, full or
\* SFTP-only, has appended its record exactly when it has taken the status to
\* COMPLETED or ERROR, and the history holds one record per completion and
\* no other.
C30_OneRecordPerCompletion ==
  /\ \A r \in RunIds : Completion(r) <=> runs[r].rec # <<>>
  /\ Len(syncHistory) = Cardinality({r \in RunIds : Completion(r)})
\* the run whose record is built in this step
Recorded(r) == runs[r].rec = <<>> /\ runs'[r].rec # <<>>

\* h2 is h1 without its k oldest records, followed by rec
AppendedDropping(h1, h2, rec, k) ==
  h2 = Append(SubSeq(h1, k + 1, Len(h1)), rec)

\* C31: the run history is append-only in completion order: the records it
\* holds are never modified or reordered, the record of a run is added at the
\* end in the step where the run completes, and records are removed only
\* from the oldest end and only when the capacity is exceeded.
C31_HistoryAppendOnly ==
  [][IF \E r \in RunIds : Recorded(r)
     THEN \E r \in RunIds :
            /\ Recorded(r)
            /\ runs'[r].term \in {"COMPLETED", "ERROR"}
            /\ \E k \in 0..Len(syncHistory) :
                 /\ AppendedDropping(syncHistory, syncHistory', runs'[r].rec[1], k)
                 /\ k > 0 => Len(syncHistory) + 1 > HistoryCap
     ELSE syncHistory' = syncHistory]_vars

\* a full history has lost its oldest record to the record of a run
C31_Witness ==
  /\ Len(syncHistory) = HistoryCap
  /\ syncHistory[1] = AgedHistory[2]
  /\ \E r \in RunIds : runs[r].rec = <<LastRecord(syncHistory)>>
ResetKinds == {"resetOk", "resetErr"}
ManualKinds == {"full", "sftp"}

\* the timer that fires in this step
Fires(t) == t \in timers /\ t.rem = 0 /\ t \notin timers'

\* the status is the one the run r set when it ended: its terminal state,
\* with the lastSync of r if it completed, and no manual run has started
\* since (only manual runs write the status)
StateSetBy(r) ==
  /\ runs[r].term \in {"COMPLETED", "ERROR"}
  /\ currentStatus.status = runs[r].term
  /\ runs[r].term = "COMPLETED" => currentStatus.lastSync = <<r>>
  /\ \A later \in RunIds : later > r => runs[later].kind \notin ManualKinds

\* C32: whenever a delayed reset-to-IDLE timer fires, the status is still the
\* COMPLETED or ERROR state set by the run that armed the timer: a reset
\* never overwrites a state that belongs to a later run.
C32_ResetFindsStateOfItsRun ==
  [][\A t \in timers : (t.kind \in ResetKinds /\ Fires(t)) => StateSetBy(t.run)]_vars

\* a reset has fired while another run was in flight
C32_Witness ==
  /\ trans \in {<<<<"COMPLETED", "IDLE">>>>, <<<<"ERROR", "IDLE">>>>}
  /\ \E r \in RunIds : runs[r].kind \in ManualKinds /\ runs[r].term # "none"
  /\ \E r \in RunIds : InFlight(r)
\* C33: lastSync changes only on a transition to COMPLETED: a failed run, a
\* rejected trigger and the resets to IDLE leave it as the most recent
\* completed run set it.
C33_LastSyncOnlyOnCompleted ==
  [][currentStatus'.lastSync # currentStatus.lastSync
       => /\ Entered("COMPLETED", trans')
          /\ currentStatus'.status = "COMPLETED"
          /\ \E r \in RunIds :
               /\ runs[r].term = "none" /\ runs'[r].term = "COMPLETED"
               /\ currentStatus'.lastSync = <<r>>]_vars

\* a run has failed and has been reset to IDLE after an earlier run had
\* completed: lastSync is still that of the completed run
C33_Witness ==
  /\ currentStatus.status = "IDLE"
  /\ timers = {}
  /\ \E r1, r2 \in RunIds :
       /\ r1 < r2
       /\ runs[r1].term = "COMPLETED"
       /\ runs[r2].term = "ERROR"
       /\ currentStatus.lastSync = <<r1>>
Logged == call.fn = "getLogs"
Limit == call.args[1]
Offset == call.args[2]
Page == call.result[1]

\* the record at position p counted from the newest (position 0)
FromNewest(h, p) == h[Len(h) - p]

\* the page is the records at positions offset .. offset + limit - 1 from the
\* newest that exist, newest first, and hasMore tells whether older ones exist
PageAsSpecified ==
  /\ Len(Page.logs) <= Limit
  /\ Len(Page.logs) = Min(Limit, Max(0, Len(syncHistory) - Offset))
  /\ \A i \in 1..Len(Page.logs) : Page.logs[i] = FromNewest(syncHistory, Offset + i - 1)
  /\ Page.hasMore <=> Len(syncHistory) > Offset + Limit

\* the pages at offsets 0, limit, .., n * limit, one after the other
RECURSIVE PagesFrom(_, _, _)
PagesFrom(k, n, limit) ==
  IF k > n THEN <<>>
  ELSE getLogs(syncHistory, limit, k * limit).logs \o PagesFrom(k + 1, n, limit)

\* the successive pages hold every record of the history once, newest first
PagesCoverOnce(limit) ==
  PagesFrom(0, Len(syncHistory), limit) = Reverse(syncHistory)

\* C34 (as stated): getLogs(limit, offset) with non-negative integers returns
\* at most limit records, newest first, the records at positions offset ..
\* offset+limit-1 from the newest; the successive pages are disjoint and
\* cover the whole history; hasMore is true exactly when older records exist.
C34_PagesOfLogs == Logged => PageAsSpecified /\ PagesCoverOnce(Limit)

\* C34 (amended): the same, the successive pages covering the history when
\* limit is at least 1 (with limit 0 every page is empty).
C34_PagesOfLogsPositiveLimit ==
  Logged => PageAsSpecified /\ (Limit >= 1 => PagesCoverOnce(Limit))

\* a page in the middle of a history: older and newer records exist
C34_Witness ==
  /\ Logged
  /\ Limit = 2 /\ Offset = 1
  /\ Len(syncHistory) = 4
  /\ Page.logs = <<syncHistory[3], syncHistory[2]>>
  /\ Page.hasMore
CleanedUp == call.fn \in {"cleanupTempFiles", "cleanupParsedFiles"}
StagingBefore == call.before[1]
Threshold == call.args[1]

\* the entries of a directory
EntriesOf(dir) == {dir[i] : i \in 1..Len(dir)}

\* older than h hours at the time of the cleanup
OlderThan(entry, h) == Now - entry.mtime > h * MsPerHour

\* every entry of before that is not older than h hours is in after, as it was
KeepsYounger(before, after, h) ==
  \A entry \in EntriesOf(before) : ~OlderThan(entry, h) => entry \in EntriesOf(after)

\* C35: a cleanup with threshold h removes only entries older than h hours:
\* every entry that is not older, the file just staged included, is still
\* there unchanged after cleanupTempFiles and after cleanupParsedFiles, and
\* no entry is added.
C35_CleanupKeepsYounger ==
  CleanedUp =>
    /\ KeepsYounger(StagingBefore.temp, Staging.temp, Threshold)
    /\ KeepsYounger(StagingBefore.parsed, Staging.parsed, Threshold)
    /\ EntriesOf(Staging.temp) \subseteq EntriesOf(StagingBefore.temp)
    /\ EntriesOf(Staging.parsed) \subseteq EntriesOf(StagingBefore.parsed)

\* a cleanup has removed an old file and left the file staged just before
C35_Witness ==
  /\ call.fn = "cleanupTempFiles"
  /\ Threshold = 2
  /\ \E entry \in EntriesOf(StagingBefore.temp) :
       OlderThan(entry, 2) /\ entry \notin EntriesOf(Staging.temp)
  /\ \E entry \in EntriesOf(Staging.temp) :
       entry.name = "db_data.asc" /\ entry.mtime = Now

\* C36: after cleanupTempFiles(h) returns, no regular file older than h
\* hours remains in the staging directory, whatever else the directory
\* holds and in whatever order it is listed.
C36_NoOldFileLeft ==
  call.fn = "cleanupTempFiles" =>
    \A entry \in EntriesOf(Staging.temp) :
      entry.type = "-" => ~OlderThan(entry, Threshold)
\* run r is the only SFTP operation so far and downloadLatestFileComplete
\* has returned to its caller
ReturnedOnItsOwn(r) ==
  /\ NumStarted = 1
  /\ runs[r].pc \in {"gen", "done"}

\* C37: when downloadLatestFileComplete runs on its own, it returns with no
\* SFTP session left open, whatever connect, list and fetch answered:
\* SftpService.isConnected is false after it returns.
C37_NoSessionLeftOpen ==
  \A r \in RunIds : ReturnedOnItsOwn(r) => ~isConnected
\* the cron tasks able to fire: the task held if it is started, and the
\* started tasks left behind
TasksAbleToFire == Abandoned + (IF TaskFires THEN 1 ELSE 0)

\* C38: after any sequence of initialize, start, stop, reschedule and
\* destroy calls, at most one cron task is able to fire, and isRunning is
\* true exactly when the task held in syncTask is started.
C38_OneTaskAndFlagAgree ==
  /\ TasksAbleToFire <= 1
  /\ isRunning <=> TaskFires
\* the configuration of the call with validateData the other way
FlagFlipped == [FileConfig EXCEPT !.validateData = ~FileConfig.validateData]

\* the records parseLine returns for the lines read
RecordsParsed ==
  {parseLine(LinesRead[i], FileConfig.cleanProductNames)[1] :
     i \in {j \in 1..Len(LinesRead) :
              parseLine(LinesRead[j], FileConfig.cleanProductNames) # <<>>}}

\* C39: the validation flag does not change the result of the parser: every
\* record parseLine returns satisfies validateProduct, and the records and
\* the counts of parseFile are the same with validateData enabled and
\* disabled.
C39_ValidationFlagNoEffect ==
  ParsedFile =>
    /\ \A product \in RecordsParsed : validateProduct(product)
    /\ FileResult = parseFile(call.args[1], FlagFlipped)

\* a file parsed with validation enabled, with lines that give records and
\* lines that give none
C39_Witness ==
  /\ ParsedFile
  /\ FileConfig.validateData
  /\ FileResult.processedLines >= 2
  /\ FileResult.skippedLines >= 1
  /\ RecordsParsed # {}
====

